---- MODULE Spec2Model ----
(***************************************************************************)
(* Model of the session orchestration core of LLMTradingAgents:            *)
(*   - FillEngine        (myllmtradingagents/sim/fills.py)                 *)
(*   - SimBroker         (myllmtradingagents/sim/broker.py)                *)
(*   - SQLiteStorage     (myllmtradingagents/storage/sqlite_store.py)      *)
(*   - ArenaRunner       (myllmtradingagents/arena/runner.py)              *)
(*                                                                         *)
(* Money is a Python float in the source.  The model computes with exact   *)
(* rationals [n, d] (d > 0, lowest terms), so every equality below is the  *)
(* exact real-number statement of what the float code computes.            *)
(*                                                                         *)
(* Five specifications share the module:                                   *)
(*   Spec       - one SimBroker driven by arbitrary calls of its public    *)
(*                methods (validate_order, execute_order, execute_orders,  *)
(*                update_prices);                                          *)
(*   SpecRunner - an ArenaRunner running sessions for its competitors      *)
(*                against one storage;                                     *)
(*   SpecGate   - calls on a SessionGate;                                  *)
(*   SpecRace   - two processes running the same competitor's pipeline     *)
(*                against one storage;                                     *)
(*   SpecAgent  - one invoke of a Strategist or RiskGuard agent on a model *)
(*                response.                                                *)
(***************************************************************************)
EXTENDS Integers, Sequences, FiniteSets, TLC

VARIABLES
    broker,     \* Spec: the SimBroker under test (fields of the object)
    last,       \* Spec: the last call made on the broker and what it returned
    storage,    \* SpecRunner: SQLiteStorage tables (run_logs, call_counters, snapshots, trades)
    brokers,    \* SpecRunner: ArenaRunner._brokers, the cache competitor id -> SimBroker
    session,    \* SpecRunner: the run_session call in progress (arguments, loop position, results)
    pipeline,   \* SpecRunner: what the last _run_competitor call did (result, model calls, fills)
    completed,  \* SpecRunner: history of (competitor, date, session_type) whose non-dry-run pipeline returned its result
    nsessions,  \* SpecRunner: number of run_session calls started
    config,     \* SpecRunner: ArenaConfig.simulation (slippage_bps, fee_bps)
    gate,       \* SpecGate: the SessionGate's config.markets, and the last call made on it with what it gave
    processes,  \* SpecRace: each process's position in _run_competitor and its local variables
    agent       \* SpecAgent: the agent under test, the model's response and what invoke returned

vars == <<broker, last, storage, brokers, session, pipeline, completed, nsessions, config, gate, processes, agent>>

ledgerVars == <<broker, last>>
runnerVars == <<storage, brokers, session, pipeline, completed, nsessions, config>>

Nil == [nil |-> TRUE]

----------------------------------------------------------------------------
(* Bounds of the model                                                     *)

InitialCash == 61
MaxQty == 2
MaxFills == 3
MaxOrders == 2
MaxSessions == 2
DailyLimit == 6
MaxRunLogs == 1

----------------------------------------------------------------------------
(* Exact rational arithmetic standing for Python float arithmetic          *)

Abs(x) == IF x < 0 THEN -x ELSE x

RECURSIVE GCD(_, _)
GCD(a, b) == IF b = 0 THEN a ELSE GCD(b, a % b)

LCM(a, b) == (a \div GCD(a, b)) * b

Norm(n, d) ==
    LET g == GCD(Abs(n), d)
    IN  [n |-> n \div g, d |-> d \div g]

R(i) == [n |-> i, d |-> 1]

Zero == R(0)

RNeg(a) == [n |-> -a.n, d |-> a.d]

RAdd(a, b) ==
    LET l == LCM(a.d, b.d)
    IN  Norm(a.n * (l \div a.d) + b.n * (l \div b.d), l)

RSub(a, b) == RAdd(a, RNeg(b))

RMul(a, b) ==
    LET g1 == GCD(Abs(a.n), b.d)
        g2 == GCD(Abs(b.n), a.d)
    IN  Norm((a.n \div g1) * (b.n \div g2), (a.d \div g2) * (b.d \div g1))

\* a / b for b > 0
RDiv(a, b) == RMul(a, [n |-> b.d, d |-> b.n])

RLeq(a, b) ==
    LET l == LCM(a.d, b.d)
    IN  a.n * (l \div a.d) <= b.n * (l \div b.d)

RLt(a, b) == ~RLeq(b, a)

\* basis points as a fraction: bps / 10000.0
Bps(bps) == Norm(bps, 10000)

----------------------------------------------------------------------------
(* Inputs                                                                  *)

Tickers == {"AAPL", "MSFT"}
Sides == {"BUY", "SELL"}
\* reference prices offered to the broker; 0 is the non-positive price
PriceValues == {0, 10, 30}
PositivePrices == {p \in PriceValues : p > 0}
\* constructor arguments offered to SimBroker: slippage_bps, fee_bps (0 or 1%) and
\* max_position_pct (25%, the default, or 100%)
Configs ==
    {[slippage_bps |-> 0, fee_bps |-> 0, max_position_pct |-> Norm(1, 4)],
     [slippage_bps |-> 0, fee_bps |-> 100, max_position_pct |-> R(1)],
     [slippage_bps |-> 100, fee_bps |-> 100, max_position_pct |-> R(1)]}

Orders == [ticker : Tickers, side : Sides, qty : 1..MaxQty]

\* price maps (Dict[str, float]): a price for some of the tickers
PriceMaps(P) == UNION {[S -> P] : S \in SUBSET Tickers}

\* order lists handed to execute_orders
OrderLists == UNION {[1..k -> {o \in Orders : o.qty = 1}] : k \in 0..MaxOrders}

----------------------------------------------------------------------------
(* FillEngine                                                              *)

compute_slippage_always_positive(slippage_bps, base_price, side) ==
    RMul(base_price, Bps(slippage_bps))

compute_slippage(slippage_bps, base_price, side) ==
    LET slippage_pct == Bps(slippage_bps)
        slippage_amount == RMul(base_price, slippage_pct)
    IN  IF side = "BUY" THEN slippage_amount ELSE RNeg(slippage_amount)

compute_fill_price(slippage_bps, base_price, side) ==
    RAdd(base_price, compute_slippage(slippage_bps, base_price, side))

compute_fees(fee_bps, notional) == RMul(notional, Bps(fee_bps))

fill_order(b, order, base_price) ==
    LET fill_price == compute_fill_price(b.slippage_bps, base_price, order.side)
        notional == RMul(R(order.qty), fill_price)
        fees == compute_fees(b.fee_bps, notional)
        slippage == RMul(compute_slippage(b.slippage_bps, base_price, order.side), R(order.qty))
    IN  [ticker |-> order.ticker, side |-> order.side, qty |-> order.qty,
         fill_price |-> fill_price, fees |-> fees, slippage |-> slippage,
         notional |-> RMul(R(order.qty), fill_price)]

----------------------------------------------------------------------------
(* Position, Snapshot                                                      *)

market_value(pos) == RMul(R(pos.qty), pos.current_price)

RECURSIVE SumValues(_, _)
SumValues(positions, S) ==
    IF S = {} THEN Zero
    ELSE LET t == CHOOSE x \in S : TRUE
         IN  RAdd(market_value(positions[t]), SumValues(positions, S \ {t}))

positions_value(snap) == SumValues(snap.positions, DOMAIN snap.positions)

equity(snap) == RAdd(snap.cash, positions_value(snap))

----------------------------------------------------------------------------
(* SimBroker                                                               *)

SimBroker(initial_cash, slippage_bps, fee_bps, max_position_pct) ==
    [cash |-> initial_cash,
     initial_cash |-> initial_cash,
     positions |-> << >>,
     realized_pnl |-> Zero,
     max_position_pct |-> max_position_pct,
     slippage_bps |-> slippage_bps,
     fee_bps |-> fee_bps,
     fill_history |-> << >>]

get_position(b, ticker) ==
    IF ticker \in DOMAIN b.positions THEN b.positions[ticker] ELSE Nil

get_position_qty(b, ticker) ==
    IF get_position(b, ticker) = Nil THEN 0 ELSE b.positions[ticker].qty

update_prices(b, prices) ==
    [b EXCEPT !.positions =
        [t \in DOMAIN b.positions |->
            IF t \in DOMAIN prices
            THEN [b.positions[t] EXCEPT !.current_price = R(prices[t])]
            ELSE b.positions[t]]]

get_snapshot(b) ==
    [cash |-> b.cash, positions |-> b.positions, realized_pnl |-> b.realized_pnl]

\* the 0.5% buffer: estimated_cost *= 1.005
CostBuffer == Norm(1005, 1000)

validate_order_sell_off_by_one(b, order, reference_price) ==
    IF order.qty <= 0 THEN [ok |-> FALSE, reason |-> "Order quantity must be positive"]
    ELSE IF RLeq(reference_price, Zero) THEN [ok |-> FALSE, reason |-> "Invalid reference price"]
    ELSE IF order.side = "BUY" /\ RLt(b.cash, RMul(RMul(R(order.qty), reference_price), CostBuffer))
         THEN [ok |-> FALSE, reason |-> "Insufficient cash"]
    ELSE IF order.side = "BUY" /\ RLt(Zero, equity(get_snapshot(b)))
            /\ RLt(b.max_position_pct,
                   RDiv(RAdd(RMul(R(order.qty), reference_price),
                             IF get_position(b, order.ticker) # Nil
                             THEN market_value(get_position(b, order.ticker)) ELSE Zero),
                        RAdd(equity(get_snapshot(b)),
                             RMul(RMul(R(order.qty), reference_price), CostBuffer))))
         THEN [ok |-> FALSE, reason |-> "Position would exceed max"]
    ELSE IF order.side = "SELL" /\ get_position_qty(b, order.ticker) <= order.qty
         THEN [ok |-> FALSE, reason |-> "Insufficient shares"]
    ELSE [ok |-> TRUE, reason |-> ""]

validate_order_no_position_check(b, order, reference_price) ==
    IF order.qty <= 0 THEN [ok |-> FALSE, reason |-> "Order quantity must be positive"]
    ELSE IF RLeq(reference_price, Zero) THEN [ok |-> FALSE, reason |-> "Invalid reference price"]
    ELSE IF order.side = "BUY" /\ RLt(b.cash, RMul(RMul(R(order.qty), reference_price), CostBuffer))
         THEN [ok |-> FALSE, reason |-> "Insufficient cash"]
    ELSE [ok |-> TRUE, reason |-> ""]

validate_order(b, order, reference_price) ==
    IF order.qty <= 0
    THEN [ok |-> FALSE, reason |-> "Order quantity must be positive"]
    ELSE IF RLeq(reference_price, Zero)
    THEN [ok |-> FALSE, reason |-> "Invalid reference price"]
    ELSE IF order.side = "BUY"
    THEN LET estimated_cost == RMul(RMul(R(order.qty), reference_price), CostBuffer)
         IN  IF RLt(b.cash, estimated_cost)
             THEN [ok |-> FALSE, reason |-> "Insufficient cash"]
             ELSE LET current_equity == equity(get_snapshot(b))
                  IN  IF RLt(Zero, current_equity)
                      THEN LET current_position == get_position(b, order.ticker)
                               new_position_value ==
                                   IF current_position # Nil
                                   THEN RAdd(RMul(R(order.qty), reference_price),
                                             market_value(current_position))
                                   ELSE RMul(R(order.qty), reference_price)
                               position_pct ==
                                   RDiv(new_position_value, RAdd(current_equity, estimated_cost))
                           IN  IF RLt(b.max_position_pct, position_pct)
                               THEN [ok |-> FALSE, reason |-> "Position would exceed max"]
                               ELSE [ok |-> TRUE, reason |-> ""]
                      ELSE [ok |-> TRUE, reason |-> ""]
    ELSE LET position == get_position(b, order.ticker)
         IN  IF position = Nil \/ position.qty < order.qty
             THEN [ok |-> FALSE, reason |-> "Insufficient shares"]
             ELSE [ok |-> TRUE, reason |-> ""]

process_buy_no_fees(b, ticker, fill) ==
    [b EXCEPT !.positions =
                  [t \in (DOMAIN b.positions) \cup {ticker} |->
                      IF t # ticker THEN b.positions[t]
                      ELSE IF ticker \in DOMAIN b.positions
                      THEN [qty |-> b.positions[t].qty + fill.qty,
                            avg_cost |-> RDiv(RAdd(RMul(b.positions[t].avg_cost,
                                                        R(b.positions[t].qty)),
                                                   RMul(fill.fill_price, R(fill.qty))),
                                              R(b.positions[t].qty + fill.qty)),
                            current_price |-> fill.fill_price]
                      ELSE [qty |-> fill.qty, avg_cost |-> fill.fill_price,
                            current_price |-> fill.fill_price]],
              !.cash = RSub(b.cash, fill.notional)]

process_buy(b, ticker, fill) ==
    LET total_cost == RAdd(fill.notional, fill.fees)
        positions ==
            IF ticker \in DOMAIN b.positions
            THEN LET pos == b.positions[ticker]
                     new_qty == pos.qty + fill.qty
                     new_cost == RDiv(RAdd(RMul(pos.avg_cost, R(pos.qty)),
                                           RMul(fill.fill_price, R(fill.qty))),
                                      R(new_qty))
                 IN  [b.positions EXCEPT ![ticker] =
                        [qty |-> new_qty, avg_cost |-> new_cost,
                         current_price |-> fill.fill_price]]
            ELSE [t \in (DOMAIN b.positions) \cup {ticker} |->
                    IF t = ticker
                    THEN [qty |-> fill.qty, avg_cost |-> fill.fill_price,
                          current_price |-> fill.fill_price]
                    ELSE b.positions[t]]
    IN  [b EXCEPT !.positions = positions,
                  !.cash = RSub(b.cash, total_cost)]

process_sell_keep_residue(b, ticker, fill) ==
    [b EXCEPT !.realized_pnl = RAdd(b.realized_pnl,
                                    RSub(RSub(fill.notional, fill.fees),
                                         RMul(b.positions[ticker].avg_cost, R(fill.qty)))),
              !.cash = RAdd(b.cash, RSub(fill.notional, fill.fees)),
              !.positions[ticker].qty = b.positions[ticker].qty - fill.qty,
              !.positions[ticker].current_price = fill.fill_price]

process_sell_gross_pnl(b, ticker, fill) ==
    [b EXCEPT !.realized_pnl = RAdd(b.realized_pnl,
                                    RSub(fill.notional,
                                         RMul(b.positions[ticker].avg_cost, R(fill.qty)))),
              !.cash = RAdd(b.cash, RSub(fill.notional, fill.fees)),
              !.positions =
                  IF b.positions[ticker].qty - fill.qty <= 0
                  THEN [t \in (DOMAIN b.positions) \ {ticker} |-> b.positions[t]]
                  ELSE [b.positions EXCEPT
                          ![ticker].qty = b.positions[ticker].qty - fill.qty,
                          ![ticker].current_price = fill.fill_price]]

process_sell_fees_off_cash_only(b, ticker, fill) ==
    [b EXCEPT !.realized_pnl = RAdd(b.realized_pnl,
                                    RSub(fill.notional,
                                         RMul(b.positions[ticker].avg_cost, R(fill.qty)))),
              !.cash = RAdd(b.cash, RSub(fill.notional, fill.fees)),
              !.positions =
                  IF b.positions[ticker].qty - fill.qty <= 0
                  THEN [t \in (DOMAIN b.positions) \ {ticker} |-> b.positions[t]]
                  ELSE [b.positions EXCEPT
                          ![ticker].qty = b.positions[ticker].qty - fill.qty]]

process_sell(b, ticker, fill) ==
    LET pos == b.positions[ticker]
        proceeds == RSub(fill.notional, fill.fees)
        cost_basis == RMul(pos.avg_cost, R(fill.qty))
        realized == RSub(proceeds, cost_basis)
        qty == pos.qty - fill.qty
    IN  [b EXCEPT !.realized_pnl = RAdd(b.realized_pnl, realized),
                  !.cash = RAdd(b.cash, proceeds),
                  !.positions =
                      IF qty <= 0
                      THEN [t \in (DOMAIN b.positions) \ {ticker} |-> b.positions[t]]
                      ELSE [b.positions EXCEPT ![ticker] =
                              [pos EXCEPT !.qty = qty,
                                          !.current_price = fill.fill_price]]]

execute_order_skips_position_check(b, order, fill_price) ==
    LET v == IF order.side = "BUY"
             THEN validate_order_no_position_check(b, order, fill_price)
             ELSE validate_order(b, order, fill_price)
    IN  IF ~v.ok
        THEN [b |-> b, fill |-> Nil]
        ELSE LET fill == fill_order(b, order, fill_price)
                 b1 == IF order.side = "BUY"
                       THEN process_buy(b, order.ticker, fill)
                       ELSE process_sell(b, order.ticker, fill)
             IN  [b |-> [b1 EXCEPT !.fill_history = Append(b1.fill_history, fill)],
                  fill |-> fill]

\* returns the broker after the call and the Fill (Nil when the order is rejected)
execute_order(b, order, fill_price) ==
    LET v == validate_order(b, order, fill_price)
    IN  IF ~v.ok
        THEN [b |-> b, fill |-> Nil]
        ELSE LET fill == fill_order(b, order, fill_price)
                 b1 == IF order.side = "BUY"
                       THEN process_buy(b, order.ticker, fill)
                       ELSE process_sell(b, order.ticker, fill)
             IN  [b |-> [b1 EXCEPT !.fill_history = Append(b1.fill_history, fill)],
                  fill |-> fill]

\* the loop of execute_orders over orders[i..]; fills is the list built so far
RECURSIVE execute_orders_from(_, _, _, _, _)
execute_orders_from(b, orders, prices, i, fills) ==
    IF i > Len(orders) THEN [b |-> b, fills |-> fills]
    ELSE LET order == orders[i]
         IN  IF order.ticker \notin DOMAIN prices
             THEN execute_orders_from(b, orders, prices, i + 1, fills)
             ELSE LET r == execute_order(b, order, R(prices[order.ticker]))
                  IN  IF r.fill # Nil
                      THEN execute_orders_from(r.b, orders, prices, i + 1, Append(fills, r.fill))
                      ELSE execute_orders_from(r.b, orders, prices, i + 1, fills)

execute_orders(b, orders, prices) == execute_orders_from(b, orders, prices, 1, << >>)

----------------------------------------------------------------------------
(* Spec: one SimBroker under arbitrary calls                               *)

NoCall == [op |-> "init"]

LedgerInit ==
    /\ \E c \in Configs :
          broker = SimBroker(R(InitialCash), c.slippage_bps, c.fee_bps, c.max_position_pct)
    /\ last = NoCall

\* validate_order(order, reference_price): reads only; last holds the side asked
\* and what it returned
ValidateOrderCall ==
    \E order \in Orders, price \in PriceValues :
        /\ last' = [op |-> "validate_order", side |-> order.side,
                    result |-> validate_order(broker, order, R(price))]
        /\ UNCHANGED broker

\* execute_order(order, fill_price): last holds the call and the Fill returned,
\* or Nil and the reason validate_order gave
ExecuteOrderCall ==
    \E order \in Orders, price \in PriceValues :
        /\ Len(broker.fill_history) < MaxFills
        /\ \E r \in {execute_order(broker, order, R(price))} :
            /\ broker' = r.b
            /\ last' = IF r.fill # Nil
                       THEN [op |-> "execute_order", order |-> order, price |-> price,
                             fill |-> r.fill]
                       ELSE [op |-> "execute_order", fill |-> Nil,
                             reason |-> validate_order(broker, order, R(price)).reason]

\* execute_orders(orders, prices): last holds the list of fills returned
ExecuteOrdersCall ==
    \E orders \in OrderLists, prices \in PriceMaps({10}) :
        /\ Len(broker.fill_history) + Len(orders) <= MaxFills
        /\ \E r \in {execute_orders(broker, orders, prices)} :
            /\ broker' = r.b
            /\ last' = [op |-> "execute_orders", fills |-> r.fills]

\* update_prices(prices)
UpdatePricesCall ==
    \E prices \in PriceMaps(PositivePrices) :
        /\ broker' = update_prices(broker, prices)
        /\ last' = [op |-> "update_prices"]

RunnerIdle ==
    /\ storage = Nil
    /\ brokers = Nil
    /\ session = Nil
    /\ pipeline = Nil
    /\ completed = {}
    /\ nsessions = 0
    /\ config = Nil

GateIdle == gate = Nil

ProcessesIdle == processes = Nil

AgentIdle == agent = Nil

Init == LedgerInit /\ RunnerIdle /\ GateIdle /\ ProcessesIdle /\ AgentIdle

Next ==
    \/ ValidateOrderCall /\ UNCHANGED <<runnerVars, gate, processes, agent>>
    \/ ExecuteOrderCall /\ UNCHANGED <<runnerVars, gate, processes, agent>>
    \/ ExecuteOrdersCall /\ UNCHANGED <<runnerVars, gate, processes, agent>>
    \/ UpdatePricesCall /\ UNCHANGED <<runnerVars, gate, processes, agent>>

Spec == Init /\ [][Next]_vars

----------------------------------------------------------------------------
(* ArenaConfig                                                             *)

\* config.competitors, in configuration order
Competitors == <<"c1", "c2">>

CompetitorConfig(id) ==
    [id |-> id,
     provider |-> "openrouter",
     initial_cash |-> R(InitialCash),
     max_position_pct |-> IF id = "c1" THEN R(1) ELSE Norm(1, 4)]

\* config.daily_call_limits.get(provider, 100)
daily_call_limit(provider) == DailyLimit

\* ArenaConfig.simulation offered at start: no slippage and fees, or 1% each
SimulationConfigs ==
    {[slippage_bps |-> 0, fee_bps |-> 0], [slippage_bps |-> 100, fee_bps |-> 100]}

\* the run_session calls made: (session_type, session_date, dry_run)
SessionCall(session_type, session_date, dry_run) ==
    [session_type |-> session_type, session_date |-> session_date, dry_run |-> dry_run]

SessionCalls ==
    {SessionCall("OPEN", "2024-01-01", FALSE),
     SessionCall("OPEN", "2024-01-01", TRUE),
     SessionCall("CLOSE", "2024-01-01", FALSE),
     SessionCall("OPEN", "2024-01-02", FALSE)}

\* _get_prices: the market's prices on a date (no MSFT quote on the first)
get_prices(session_date) ==
    IF session_date = "2024-01-01" THEN [t \in {"AAPL"} |-> 10]
    ELSE [t \in Tickers |-> 30]

\* max_retries of _invoke_with_retry
max_retries == 2

----------------------------------------------------------------------------
(* What the model backend does in one pipeline (the environment's choice)  *)

\* one stage: the first `fails` attempts fail (at most max_retries + 1 are
\* made); raw is the raw_response of the last failed attempt; repair is what
\* the repair call gives: a parsable object, unparsable text or a model error
Stage(fails, raw, repair) == [fails |-> fails, raw |-> raw, repair |-> repair]

StageOk == Stage(0, "text", "ok")
StageRetried == Stage(1, "text", "ok")
StageRepaired == Stage(max_retries + 1, "text", "ok")
StageUnparsable == Stage(max_retries + 1, "text", "unparsable")
StageDown == Stage(max_retries + 1, "", "error")

\* the orders RiskGuard's TradePlan carries when it yields one
Hold == << >>
BuyAAPL == <<[ticker |-> "AAPL", side |-> "BUY", qty |-> 2]>>
BuyBoth == <<[ticker |-> "AAPL", side |-> "BUY", qty |-> 2],
             [ticker |-> "MSFT", side |-> "BUY", qty |-> 1]>>
SellAAPL == <<[ticker |-> "AAPL", side |-> "SELL", qty |-> 1]>>

Script(client_ok, strategist, risk_guard, orders) ==
    [client_ok |-> client_ok, strategist |-> strategist, risk_guard |-> risk_guard,
     orders |-> orders]

Scripts ==
    {Script(FALSE, StageOk, StageOk, Hold),
     Script(TRUE, StageOk, StageOk, BuyAAPL),
     Script(TRUE, StageOk, StageOk, BuyBoth),
     Script(TRUE, StageRetried, StageRepaired, SellAAPL),
     Script(TRUE, StageUnparsable, StageOk, Hold),
     Script(TRUE, StageOk, StageDown, Hold)}

----------------------------------------------------------------------------
(* SQLiteStorage                                                           *)

\* journal lists the tables written, in the order of the writes
EmptyStorage ==
    [run_logs |-> {}, call_counters |-> << >>, snapshots |-> << >>, trades |-> << >>,
     journal |-> << >>]

has_run_today_more_than_once(st, competitor_id, session_date, session_type) ==
    Cardinality({r \in st.run_logs : /\ r.competitor_id = competitor_id
                                     /\ r.session_date = session_date
                                     /\ r.session_type = session_type}) > 1

has_run_today(st, competitor_id, session_date, session_type) ==
    Cardinality({r \in st.run_logs : /\ r.competitor_id = competitor_id
                                     /\ r.session_date = session_date
                                     /\ r.session_type = session_type}) > 0

get_daily_call_count(st, provider, date) ==
    IF <<provider, date>> \in DOMAIN st.call_counters
    THEN st.call_counters[<<provider, date>>]
    ELSE 0

increment_call_count_two_per_run(st, provider, date, count) ==
    [st EXCEPT !.call_counters =
        [k \in (DOMAIN st.call_counters) \cup {<<provider, date>>} |->
            IF k = <<provider, date>>
            THEN get_daily_call_count(st, provider, date) + 2
            ELSE st.call_counters[k]],
              !.journal = Append(@, "call_counters")]

increment_call_count(st, provider, date, count) ==
    [st EXCEPT !.call_counters =
        [k \in (DOMAIN st.call_counters) \cup {<<provider, date>>} |->
            IF k = <<provider, date>>
            THEN get_daily_call_count(st, provider, date) + count
            ELSE st.call_counters[k]],
              !.journal = Append(@, "call_counters")]

\* rows of one competitor, oldest first (timestamps grow)
save_snapshot(st, competitor_id, snapshot) ==
    [st EXCEPT !.snapshots =
        [c \in (DOMAIN st.snapshots) \cup {competitor_id} |->
            IF c = competitor_id
            THEN (IF c \in DOMAIN st.snapshots THEN Append(st.snapshots[c], snapshot)
                                               ELSE <<snapshot>>)
            ELSE st.snapshots[c]],
              !.journal = Append(@, "snapshots")]

get_latest_snapshot_oldest_row(st, competitor_id) ==
    IF competitor_id \in DOMAIN st.snapshots
    THEN st.snapshots[competitor_id][1]
    ELSE Nil

get_latest_snapshot(st, competitor_id) ==
    IF competitor_id \in DOMAIN st.snapshots
    THEN st.snapshots[competitor_id][Len(st.snapshots[competitor_id])]
    ELSE Nil

save_trade(st, competitor_id, fill) ==
    [st EXCEPT !.trades = Append(st.trades, [competitor_id |-> competitor_id, fill |-> fill]),
               !.journal = Append(@, "trades")]

RECURSIVE save_trades(_, _, _)
save_trades(st, competitor_id, fills) ==
    IF fills = << >> THEN st
    ELSE save_trades(save_trade(st, competitor_id, Head(fills)), competitor_id, Tail(fills))

\* INSERT OR REPLACE on the primary key id = run_id
save_run_log(st, run_log) ==
    [st EXCEPT !.run_logs =
        {r \in st.run_logs : r.run_id # run_log.run_id} \cup {run_log},
               !.journal = Append(@, "run_logs")]

----------------------------------------------------------------------------
(* ArenaRunner                                                             *)

\* the cache after get_broker(competitor): a broker is created on a miss, from
\* the latest stored snapshot when there is one
get_broker(st, brs, sim, competitor) ==
    IF competitor.id \in DOMAIN brs THEN brs
    ELSE LET latest == get_latest_snapshot(st, competitor.id)
             fresh == SimBroker(competitor.initial_cash, sim.slippage_bps, sim.fee_bps,
                                competitor.max_position_pct)
             b == IF latest # Nil
                  THEN [fresh EXCEPT !.cash = latest.cash,
                                     !.realized_pnl = latest.realized_pnl,
                                     !.positions = latest.positions]
                  ELSE fresh
         IN  [c \in (DOMAIN brs) \cup {competitor.id} |->
                IF c = competitor.id THEN b ELSE brs[c]]

\* Snapshot(cash=...) validates cash >= 0 (schemas.Snapshot.cash, ge=0):
\* get_snapshot raises a ValidationError otherwise
snapshot_raises(b) == RLt(b.cash, Zero)

\* get_snapshot lists the broker's own Position objects (positions =
\* list(self.positions.values())), so a Position in an earlier snapshot reads
\* what the broker wrote to it since: this is that object after the fills of
\* its ticker and the closing update_prices. A SELL that takes its qty to 0
\* removes it from the broker's dict, and it is not written after that.
RECURSIVE position_object_after(_, _, _, _)
position_object_after(pos, ticker, fills, prices) ==
    IF fills = << >>
    THEN IF ticker \in DOMAIN prices
         THEN [pos EXCEPT !.current_price = R(prices[ticker])]
         ELSE pos
    ELSE LET fill == Head(fills)
         IN  IF fill.ticker # ticker
             THEN position_object_after(pos, ticker, Tail(fills), prices)
             ELSE IF fill.side = "BUY"
             THEN position_object_after(
                      [qty |-> pos.qty + fill.qty,
                       avg_cost |-> RDiv(RAdd(RMul(pos.avg_cost, R(pos.qty)),
                                              RMul(fill.fill_price, R(fill.qty))),
                                         R(pos.qty + fill.qty)),
                       current_price |-> fill.fill_price],
                      ticker, Tail(fills), prices)
             ELSE IF pos.qty - fill.qty <= 0
             THEN [pos EXCEPT !.qty = pos.qty - fill.qty,
                              !.current_price = fill.fill_price]
             ELSE position_object_after(
                      [pos EXCEPT !.qty = pos.qty - fill.qty,
                                  !.current_price = fill.fill_price],
                      ticker, Tail(fills), prices)

\* snapshot_before as it reads once the pipeline's fills are applied
snapshot_read_after(snapshot, fills, prices) ==
    [snapshot EXCEPT !.positions =
        [t \in DOMAIN snapshot.positions |->
            position_object_after(snapshot.positions[t], t, fills, prices)]]

LLMCall(call_type, success) == [call_type |-> call_type, success |-> success]

\* _invoke_with_retry: the calls logged, and the result returned (the first
\* successful one, or the last failed one)
RECURSIVE invoke_attempts(_, _, _, _)
invoke_attempts(stage, call_type, attempt, llm_calls) ==
    IF attempt > max_retries
    THEN [llm_calls |-> llm_calls, success |-> FALSE, raw_response |-> stage.raw]
    ELSE IF attempt >= stage.fails
         THEN [llm_calls |-> Append(llm_calls, LLMCall(call_type, TRUE)),
               success |-> TRUE, raw_response |-> "text"]
         ELSE invoke_attempts(stage, call_type, attempt + 1,
                              Append(llm_calls, LLMCall(call_type, FALSE)))

invoke_with_retry_from_second_attempt(stage, call_type, llm_calls) ==
    invoke_attempts(stage, call_type, 1, llm_calls)

invoke_with_retry(stage, call_type, llm_calls) ==
    invoke_attempts(stage, call_type, 0, llm_calls)

repair_json_parse_always_parses(stage, llm_calls) ==
    [llm_calls |-> Append(llm_calls, LLMCall("repair", stage.repair # "error")),
     parsed |-> TRUE]

\* _repair_json_parse: one more model call, logged as "repair"; parsed is TRUE
\* when the call succeeded and its content validates against the schema
repair_json_parse(stage, llm_calls) ==
    [llm_calls |-> Append(llm_calls, LLMCall("repair", stage.repair # "error")),
     parsed |-> stage.repair = "ok"]

\* the validation loop of _run_competitor over trade_plan.orders[i..]
RECURSIVE validate_plan(_, _, _, _, _, _)
validate_plan(b, orders, prices, i, valid_orders, errors) ==
    IF i > Len(orders) THEN [valid_orders |-> valid_orders, errors |-> errors]
    ELSE LET order == orders[i]
         IN  IF order.ticker \notin DOMAIN prices
             THEN validate_plan(b, orders, prices, i + 1, valid_orders,
                                Append(errors, [error |-> "No price available", order |-> order]))
             ELSE LET v == validate_order(b, order, R(prices[order.ticker]))
                  IN  IF ~v.ok
                      THEN validate_plan(b, orders, prices, i + 1, valid_orders,
                                         Append(errors, [error |-> "Order rejected",
                                                         order |-> order, reason |-> v.reason]))
                      ELSE validate_plan(b, orders, prices, i + 1,
                                         Append(valid_orders, order), errors)

\* what _run_competitor hands back to run_session: the storage and the broker
\* cache after it, its return value (or raised = TRUE when it raised), and what
\* it did on the way
Outcome(st, brs, raised, result, llm_calls, fills) ==
    [storage |-> st, brokers |-> brs, raised |-> raised, result |-> result,
     llm_calls |-> llm_calls, fills |-> fills]

Skipped(reason) == [skipped |-> TRUE, reason |-> reason]

should_execute_ignoring_dry_run(valid_orders, dry_run) == valid_orders # << >>

\* line 525: if valid_orders and not dry_run
should_execute(valid_orders, dry_run) == valid_orders # << >> /\ ~dry_run

\* Then(value, Rest) is Rest(value): one statement's result, named in the rest
Then(value, Rest(_)) == Rest(value)

\* lines 500-583: validate and execute the plan, snapshot, persist, return
execute_and_persist(st, brs, b, competitor, session_type, session_date_str, prices, dry_run, run_id, snapshot_before, llm_calls, strategist_proposal, trade_plan, errors0) ==
    Then(IF trade_plan # Nil
         THEN validate_plan(b, trade_plan.orders, prices, 1, << >>, errors0)
         ELSE [valid_orders |-> << >>, errors |-> errors0],
         LAMBDA checked :
    Then(IF should_execute(checked.valid_orders, dry_run)
         THEN execute_orders(b, checked.valid_orders, prices)
         ELSE [b |-> b, fills |-> << >>],
         LAMBDA exec :
    Then(save_trades(st, competitor.id, exec.fills),
         LAMBDA st1 :
    Then(update_prices(exec.b, prices),
         LAMBDA b2 :
    IF snapshot_raises(b2)
    THEN Outcome(st1, [brs EXCEPT ![competitor.id] = b2], TRUE,
                 [error |-> "ValidationError"], llm_calls, exec.fills)
    ELSE
    Then(get_snapshot(b2),
         LAMBDA snapshot_after :
    Then(snapshot_read_after(snapshot_before, exec.fills, prices),
         LAMBDA snapshot_before_read :
    Then([run_id |-> run_id,
          competitor_id |-> competitor.id,
          session_date |-> session_date_str,
          session_type |-> session_type,
          llm_calls |-> llm_calls,
          strategist_proposal |-> strategist_proposal,
          trade_plan |-> trade_plan,
          fills |-> exec.fills,
          errors |-> checked.errors,
          snapshot_before |-> snapshot_before_read,
          snapshot_after |-> snapshot_after],
         LAMBDA run_log :
    Outcome(IF dry_run THEN st1
            ELSE save_run_log(
                     save_snapshot(
                         increment_call_count(st1, competitor.provider,
                                              session_date_str, Len(llm_calls)),
                         competitor.id, snapshot_after),
                     run_log),
            [brs EXCEPT ![competitor.id] = b2],
            FALSE,
            [run_id |-> run_id,
             strategist_proposal |-> strategist_proposal,
             trade_plan |-> trade_plan,
             fills |-> exec.fills,
             errors |-> checked.errors,
             equity_before |-> equity(snapshot_before_read),
             equity_after |-> equity(snapshot_after)],
            llm_calls, exec.fills))))))))

Proposal == [proposals |-> "proposals"]

\* one agent stage (lines 419-448, 464-495): _invoke_with_retry, and on failure
\* the error and _repair_json_parse; output is the parsed object (parsed = TRUE)
\* or None
run_stage(stage, call_type, failure, llm_calls, errors) ==
    Then(invoke_with_retry(stage, call_type, llm_calls),
         LAMBDA result :
    IF result.success
    THEN [llm_calls |-> result.llm_calls, errors |-> errors, parsed |-> TRUE]
    ELSE Then(repair_json_parse(stage, result.llm_calls),
              LAMBDA repair :
              [llm_calls |-> repair.llm_calls,
               errors |-> Append(errors, [error |-> failure]),
               parsed |-> repair.parsed]))

\* lines 450-583: with the Strategist stage's outcome s1, the budget re-check,
\* the RiskGuard stage, then the rest
risk_guard_and_execute(st, brs, b, competitor, session_type, session_date_str, prices, dry_run, script, run_id, snapshot_before, limit, s1) ==
    IF ~s1.parsed
    THEN execute_and_persist(st, brs, b, competitor, session_type, session_date_str,
             prices, dry_run, run_id, snapshot_before, s1.llm_calls, Nil, Nil,
             Append(s1.errors,
                    [error |-> "Skipping RiskGuard: No strategist proposal available"]))
    ELSE IF get_daily_call_count(st, competitor.provider, session_date_str) + 1 > limit
    THEN \* errors.append(...), and then risk_guard_result is read unbound
         Outcome(st, brs, TRUE, [error |-> "UnboundLocalError"], s1.llm_calls, << >>)
    ELSE
    Then(run_stage(script.risk_guard, "risk_guard", "RiskGuard call failed",
                   s1.llm_calls, s1.errors),
         LAMBDA s2 :
    execute_and_persist(st, brs, b, competitor, session_type, session_date_str,
        prices, dry_run, run_id, snapshot_before, s2.llm_calls, Proposal,
        IF s2.parsed THEN [orders |-> script.orders] ELSE Nil,
        s2.errors))

\* lines 407-498: the Strategist stage, the RiskGuard stage, then the rest
run_agents(st, brs, b, competitor, session_type, session_date_str, prices, dry_run, script, run_id, snapshot_before, limit) ==
    Then(run_stage(script.strategist, "strategist", "Strategist call failed", << >>, << >>),
         LAMBDA s1 :
    risk_guard_and_execute(st, brs, b, competitor, session_type, session_date_str,
        prices, dry_run, script, run_id, snapshot_before, limit, s1))

over_budget_counting_one_call(current_count, limit) == current_count + 1 > limit

over_budget_never(current_count, limit) == FALSE

\* line 388: if current_count + 2 > limit
over_budget(current_count, limit) == current_count + 2 > limit

\* _run_competitor
run_competitor(st, brs, sim, competitor, session_type, session_date_str, prices, dry_run, script, run_id) ==
    IF ~dry_run /\ has_run_today(st, competitor.id, session_date_str, session_type)
    THEN Outcome(st, brs, FALSE, Skipped("already_ran"), << >>, << >>)
    ELSE
    Then(get_daily_call_count(st, competitor.provider, session_date_str),
         LAMBDA current_count :
    Then(daily_call_limit(competitor.provider),
         LAMBDA limit :
    IF over_budget(current_count, limit)
    THEN Outcome(st, brs, FALSE, Skipped("call_limit"), << >>, << >>)
    ELSE
    Then(get_broker(st, brs, sim, competitor),
         LAMBDA brs0 :
    Then(update_prices(brs0[competitor.id], prices),
         LAMBDA b :
    Then([brs0 EXCEPT ![competitor.id] = b],
         LAMBDA brs1 :
    IF snapshot_raises(b)
    THEN Outcome(st, brs1, TRUE, [error |-> "ValidationError"], << >>, << >>)
    ELSE IF ~script.client_ok
    THEN Outcome(st, brs1, FALSE, [error |-> "Failed to create LLM client"], << >>, << >>)
    ELSE run_agents(st, brs1, b, competitor, session_type, session_date_str,
                    prices, dry_run, script, run_id, get_snapshot(b), limit))))))

----------------------------------------------------------------------------
(* SpecRunner: run_session calls of one ArenaRunner                        *)

RunnerInit ==
    /\ \E sim \in SimulationConfigs : config = sim
    /\ storage = EmptyStorage
    /\ brokers = << >>
    /\ session = [status |-> "idle"]
    /\ pipeline = [n |-> 0]
    /\ completed = {}
    /\ nsessions = 0

LedgerIdle == broker = Nil /\ last = NoCall

\* run_session(session_type, session_date, dry_run) up to its loop: the
\* arguments are taken and the prices fetched
RunSessionStart ==
    \E call \in SessionCalls :
        /\ session.status \in {"idle", "returned"}
        /\ nsessions < MaxSessions
        /\ nsessions' = nsessions + 1
        /\ session' = [status |-> "running", session_type |-> call.session_type,
                       session_date |-> call.session_date, dry_run |-> call.dry_run,
                       prices |-> get_prices(call.session_date), next |-> 1,
                       results |-> << >>]
        /\ UNCHANGED <<storage, brokers, pipeline, completed, config>>

record_result_drops_raised(results, competitor_id, out) ==
    IF out.raised THEN results
    ELSE [c \in (DOMAIN results) \cup {competitor_id} |->
            IF c = competitor_id THEN out.result ELSE results[c]]

\* lines 172-185: results[competitor.id] is what _run_competitor returned, or
\* {error: str(e)} for the exception it raised
record_result(results, competitor_id, out) ==
    [c \in (DOMAIN results) \cup {competitor_id} |->
        IF c # competitor_id THEN results[c]
        ELSE IF out.raised THEN [error |-> out.result.error]
        ELSE out.result]

\* one iteration of run_session's loop: _run_competitor for the next
\* competitor, an exception caught and recorded as {error}
RunCompetitor ==
    /\ session.status = "running"
    /\ session.next <= Len(Competitors)
    /\ \E script \in Scripts :
        LET competitor == CompetitorConfig(Competitors[session.next])
            run_id == (nsessions - 1) * Len(Competitors) + session.next
            key == <<competitor.id, session.session_date, session.session_type>>
        IN  \E out \in {run_competitor(storage, brokers, config, competitor,
                                       session.session_type, session.session_date,
                                       session.prices, session.dry_run, script, run_id)} :
            /\ storage' = out.storage
            /\ brokers' = out.brokers
            /\ pipeline' = [n |-> pipeline.n + 1,
                            competitor |-> competitor.id,
                            session_date |-> session.session_date,
                            session_type |-> session.session_type,
                            dry_run |-> session.dry_run,
                            script |-> script,
                            raised |-> out.raised,
                            result |-> out.result,
                            llm_calls |-> out.llm_calls,
                            fills |-> out.fills]
            /\ session' = [session EXCEPT
                             !.next = session.next + 1,
                             !.results = record_result(session.results, competitor.id, out)]
            /\ completed' = IF ~session.dry_run /\ "run_id" \in DOMAIN out.result
                            THEN completed \cup {key}
                            ELSE completed
    /\ UNCHANGED <<nsessions, config>>

\* run_session returns results
RunSessionReturn ==
    /\ session.status = "running"
    /\ session.next > Len(Competitors)
    /\ session' = [session EXCEPT !.status = "returned"]
    /\ UNCHANGED <<storage, brokers, pipeline, completed, nsessions, config>>

\* the process ends and a new ArenaRunner is constructed over the same
\* database: the broker cache starts empty
Restart ==
    /\ session.status = "returned"
    /\ brokers # << >>
    /\ brokers' = << >>
    /\ session' = [status |-> "idle"]
    /\ UNCHANGED <<storage, pipeline, completed, nsessions, config>>

NextRunner ==
    \/ RunSessionStart /\ UNCHANGED <<ledgerVars, gate, processes, agent>>
    \/ RunCompetitor /\ UNCHANGED <<ledgerVars, gate, processes, agent>>
    \/ RunSessionReturn /\ UNCHANGED <<ledgerVars, gate, processes, agent>>
    \/ Restart /\ UNCHANGED <<ledgerVars, gate, processes, agent>>

InitRunner == RunnerInit /\ LedgerIdle /\ GateIdle /\ ProcessesIdle /\ AgentIdle

SpecRunner == InitRunner /\ [][NextRunner]_vars

----------------------------------------------------------------------------
(* Dates and times                                                         *)

\* A datetime is its wall-clock reading in minutes since 2024-01-01 00:00 (a
\* Monday), and, when it is timezone-aware, its offset from UTC in minutes.
Datetime(aware, wall, off) == [aware |-> aware, wall |-> wall, off |-> off]

MinutesPerDay == 24 * 60

HM(hours, minutes) == hours * 60 + minutes

\* datetime.date(): the calendar day of the wall-clock reading (0 is 2024-01-01)
DateOf(t) == t.wall \div MinutesPerDay

\* the instant of an aware datetime, in minutes of UTC
Utc(t) == t.wall - t.off

\* pytz.timezone(name), as the zone's offset in January
TzOffset(timezone) ==
    CASE timezone = "UTC" -> 0
      [] timezone = "America/New_York" -> 0 - HM(5, 0)
      [] timezone = "Asia/Singapore" -> HM(8, 0)

\* tz.localize(datetime.combine(date, time))
Localize(timezone, day, time) ==
    Datetime(TRUE, day * MinutesPerDay + time, TzOffset(timezone))

\* now.astimezone(tz)
AsTimezone(t, timezone) ==
    Datetime(TRUE, Utc(t) + TzOffset(timezone), TzOffset(timezone))

\* date.isoformat(), for the days of January 2024
Isoformat(day) ==
    <<"2024-01-01", "2024-01-02", "2024-01-03", "2024-01-04", "2024-01-05",
      "2024-01-06", "2024-01-07", "2024-01-08", "2024-01-09", "2024-01-10",
      "2024-01-11", "2024-01-12", "2024-01-13", "2024-01-14", "2024-01-15",
      "2024-01-16">>[day + 1]

\* date.weekday(): Monday is 0
Weekday(day) == day % 7

----------------------------------------------------------------------------
(* Market adapters                                                         *)

\* MarketConfig(type, timezone, session_times); session_times in minutes of the day
MarketConfig(type, timezone, session_times) ==
    [type |-> type, timezone |-> timezone, session_times |-> session_times]

USEquity == MarketConfig("us_equity", "UTC", <<HM(0, 0), HM(12, 0)>>)
SGEquity == MarketConfig("sg_equity", "UTC", <<HM(0, 0), HM(12, 0)>>)
Crypto == MarketConfig("crypto", "UTC", <<HM(0, 0), HM(12, 0)>>)
CryptoSingapore == MarketConfig("crypto", "Asia/Singapore", <<HM(9, 0)>>)

\* the adapter's TIMEZONE
AdapterTimezone(market_type) ==
    CASE market_type = "us_equity" -> "America/New_York"
      [] market_type = "sg_equity" -> "Asia/Singapore"
      [] market_type = "crypto" -> "UTC"

\* the exchange's holidays in the calendar (XNYS: New Year's Day and Martin
\* Luther King Jr. Day; XSES: New Year's Day)
Holidays(market_type) ==
    CASE market_type = "us_equity" -> {0, 14}
      [] market_type = "sg_equity" -> {0}
      [] market_type = "crypto" -> {}

\* adapter.is_trading_day(date)
is_trading_day(market_type, day) ==
    IF market_type = "crypto" THEN TRUE
    ELSE Weekday(day) < 5 /\ day \notin Holidays(market_type)

\* adapter.get_session_times(date): timezone-aware (open, close), or None. The
\* gate's crypto adapter is created without session_times, so it has the
\* defaults 00:00 and 12:00 UTC.
get_session_times(market_type, day) ==
    IF ~is_trading_day(market_type, day) THEN Nil
    ELSE CASE market_type = "us_equity" ->
                [open_time |-> Localize("America/New_York", day, HM(9, 30)),
                 close_time |-> Localize("America/New_York", day, HM(16, 0))]
           [] market_type = "sg_equity" ->
                [open_time |-> Localize("Asia/Singapore", day, HM(9, 0)),
                 close_time |-> Localize("Asia/Singapore", day, HM(17, 0))]
           [] market_type = "crypto" ->
                [open_time |-> Localize("UTC", day, HM(0, 0)),
                 close_time |-> Localize("UTC", day, HM(12, 0))]

----------------------------------------------------------------------------
(* SessionGate                                                             *)

\* what a call gives: (should_run, reason), or the exception it raises
Returned(ok, reason) == [raised |-> FALSE, ok |-> ok, reason |-> reason]

Raised(exception) == [raised |-> TRUE, ok |-> FALSE, reason |-> exception]

any_competitor_ran_first_only(st, today_str, session_type) ==
    has_run_today(st, Competitors[1], today_str, session_type)

\* lines 97-99, 136-138: has_run_today for some competitor of config.competitors
any_competitor_ran(st, today_str, session_type) ==
    \E i \in DOMAIN Competitors : has_run_today(st, Competitors[i], today_str, session_type)

\* _check_crypto_session
check_crypto_session(st, market, session_type, now, today_str) ==
    LET now_local == IF now.aware THEN AsTimezone(now, market.timezone)
                     ELSE Datetime(TRUE, now.wall, TzOffset(market.timezone))
        idx == IF session_type = "OPEN" THEN 0 ELSE 1
        session_idx == IF idx >= Len(market.session_times) THEN 0 ELSE idx
        target_dt == Localize(market.timezone, DateOf(now_local),
                              market.session_times[session_idx + 1])
        minutes == Utc(now_local) - Utc(target_dt)
        diff == 60 * (IF minutes < 0 THEN 0 - minutes ELSE minutes)
    IN  IF diff > 600 THEN Returned(FALSE, "Outside crypto window")
        ELSE IF any_competitor_ran(st, today_str, session_type)
        THEN Returned(FALSE, "Already ran")
        ELSE Returned(TRUE, "OK")

in_window_open_closed_early(window_start, now, window_end) ==
    Utc(window_start) < Utc(now) /\ Utc(now) <= Utc(window_end)

\* lines 85, 93: window_start <= now <= window_end
in_window(window_start, now, window_end) ==
    Utc(window_start) <= Utc(now) /\ Utc(now) <= Utc(window_end)

\* timedelta arithmetic on a datetime
Plus(t, minutes) == [t EXCEPT !.wall = @ + minutes]

\* should_run(market, session_type, now)
should_run(st, market, session_type, now) ==
    LET today == DateOf(now)
        today_str == Isoformat(today)
        session_times == get_session_times(market.type, today)
    IN  IF market.type # "crypto" /\ ~is_trading_day(market.type, today)
        THEN Returned(FALSE, "Not a trading day")
        ELSE IF session_times = Nil /\ market.type # "crypto"
        THEN Returned(FALSE, "Could not determine session times")
        ELSE IF market.type = "crypto"
        THEN check_crypto_session(st, market, session_type, now, today_str)
        ELSE IF ~now.aware
        THEN \* a naive now compared with the timezone-aware session times
             Raised("TypeError")
        ELSE IF /\ session_type = "OPEN"
                /\ ~in_window(Plus(session_times.open_time, 0 - 5), now,
                              Plus(session_times.open_time, 30))
        THEN Returned(FALSE, "Outside OPEN window")
        ELSE IF /\ session_type = "CLOSE"
                /\ ~in_window(Plus(session_times.close_time, 0 - 30), now,
                              Plus(session_times.close_time, 5))
        THEN Returned(FALSE, "Outside CLOSE window")
        ELSE IF any_competitor_ran(st, today_str, session_type)
        THEN Returned(FALSE, "Already ran")
        ELSE Returned(TRUE, "OK")

NextSession(market_type, session_type, time) ==
    [market_type |-> market_type, session_type |-> session_type, time |-> time]

\* lines 161-173: the sessions of today still ahead of now
sessions_today(market_type, today, now) ==
    LET session_times == get_session_times(market_type, today)
    IN  IF (market_type = "crypto" \/ is_trading_day(market_type, today))
           /\ session_times # Nil
        THEN (IF Utc(now) < Utc(session_times.open_time)
              THEN <<NextSession(market_type, "OPEN", session_times.open_time)>>
              ELSE << >>)
             \o
             (IF Utc(now) < Utc(session_times.close_time)
              THEN <<NextSession(market_type, "CLOSE", session_times.close_time)>>
              ELSE << >>)
        ELSE << >>

\* lines 161-168: now < open_time is evaluated (it raises for a naive now)
compares_today(market_type, today) ==
    /\ market_type = "crypto" \/ is_trading_day(market_type, today)
    /\ get_session_times(market_type, today) # Nil

\* lines 176-184: the OPEN of the first day, of the `tries` days from `day`
\* on, that has session times
RECURSIVE first_open_from(_, _, _)
first_open_from(market_type, day, tries) ==
    IF tries = 0 THEN << >>
    ELSE IF (market_type = "crypto" \/ is_trading_day(market_type, day))
            /\ get_session_times(market_type, day) # Nil
    THEN <<NextSession(market_type, "OPEN", get_session_times(market_type, day).open_time)>>
    ELSE first_open_from(market_type, day + 1, tries - 1)

\* the loop over config.markets from index i on
RECURSIVE collect_sessions(_, _, _, _)
collect_sessions(markets, i, now, next_sessions) ==
    IF i > Len(markets) THEN [raised |-> FALSE, next_sessions |-> next_sessions]
    ELSE IF compares_today(markets[i].type, DateOf(now)) /\ ~now.aware
    THEN Raised("TypeError")
    ELSE collect_sessions(markets, i + 1, now,
             next_sessions
             \o (IF now.aware THEN sessions_today(markets[i].type, DateOf(now), now)
                 ELSE << >>)
             \o first_open_from(markets[i].type, DateOf(now) + 1, 7))

\* next_sessions.sort(key=lambda x: x[2]); next_sessions[0] (the sort is stable)
soonest(next_sessions) ==
    next_sessions[CHOOSE i \in DOMAIN next_sessions :
        \A j \in DOMAIN next_sessions :
            \/ Utc(next_sessions[i].time) < Utc(next_sessions[j].time)
            \/ Utc(next_sessions[i].time) = Utc(next_sessions[j].time) /\ i <= j]

\* get_next_session(now): the value returned, None included, or the exception
get_next_session(markets, now) ==
    LET collected == collect_sessions(markets, 1, now, << >>)
    IN  IF collected.raised THEN collected
        ELSE IF collected.next_sessions = << >> THEN [raised |-> FALSE, value |-> Nil]
        ELSE [raised |-> FALSE, value |-> soonest(collected.next_sessions)]

----------------------------------------------------------------------------
(* Calls on a SessionGate (specification SpecGate)                         *)

\* config.markets of the gate under test
MarketLists ==
    {<< >>, <<USEquity>>, <<SGEquity>>, <<Crypto>>, <<SGEquity, USEquity, Crypto>>}

\* the market argument of should_run
MarketConfigs == {USEquity, SGEquity, Crypto, CryptoSingapore}

SessionTypes == {"OPEN", "CLOSE"}

\* the days of `now`: New Year's Day (a Monday), Tuesday, Friday, Saturday
NowDays == {0, 1, 4, 5}

\* the days with a stored RunLog
RunDays == {1, 4}

\* the wall-clock readings of `now`
NowTimes ==
    {HM(0, 0), HM(0, 10), HM(0, 11), HM(8, 0), HM(8, 54), HM(8, 55), HM(9, 10),
     HM(9, 20), HM(9, 24), HM(9, 25), HM(9, 30), HM(10, 0), HM(10, 1), HM(11, 50),
     HM(12, 11), HM(15, 29), HM(15, 30), HM(16, 5), HM(16, 6), HM(16, 29),
     HM(17, 5), HM(17, 6), HM(20, 0), HM(21, 0), HM(23, 50)}

Timezones == {"UTC", "America/New_York", "Asia/Singapore"}

\* the `now` of a call: timezone-aware in one of the zones, or naive (as the
\* default datetime.now() is)
Nows ==
    {Datetime(TRUE, day * MinutesPerDay + time, TzOffset(tz)) :
        day \in NowDays, time \in NowTimes, tz \in Timezones}
    \cup {Datetime(FALSE, day * MinutesPerDay + time, 0) :
        day \in NowDays, time \in NowTimes}

GateWaiting(markets) == [markets |-> markets, call |-> "none"]

\* SessionGate(config, storage) on an empty database
GateInit ==
    /\ storage = EmptyStorage
    /\ \E markets \in MarketLists : gate = GateWaiting(markets)

RunnerOff ==
    /\ brokers = << >>
    /\ session = [status |-> "idle"]
    /\ pipeline = [n |-> 0]
    /\ completed = {}
    /\ nsessions = 0
    /\ config = Nil

gateFrame == <<broker, last, brokers, session, pipeline, completed, nsessions, config, processes, agent>>

\* a call of should_run(market, session_type, now)
ShouldRunCall ==
    /\ gate.call = "none"
    /\ \E market \in MarketConfigs, session_type \in SessionTypes, now \in Nows :
        gate' = [markets |-> gate.markets, call |-> "should_run", market |-> market,
                 session_type |-> session_type, now |-> now,
                 result |-> should_run(storage, market, session_type, now)]
    /\ UNCHANGED storage

\* a call of get_next_session(now)
GetNextSessionCall ==
    /\ gate.call = "none"
    /\ \E now \in Nows :
        gate' = [markets |-> gate.markets, call |-> "get_next_session", now |-> now,
                 result |-> get_next_session(gate.markets, now)]
    /\ UNCHANGED storage

\* the caller takes the result
GateReturn ==
    /\ gate.call # "none"
    /\ gate' = GateWaiting(gate.markets)
    /\ UNCHANGED storage

\* the orchestrator stores the RunLog of a competitor's session
SaveRunLog ==
    /\ gate.call = "none"
    /\ Cardinality(storage.run_logs) < MaxRunLogs
    /\ \E i \in DOMAIN Competitors, day \in RunDays, session_type \in SessionTypes :
        storage' = save_run_log(storage,
                       [run_id |-> Cardinality(storage.run_logs) + 1,
                        competitor_id |-> Competitors[i],
                        session_date |-> Isoformat(day),
                        session_type |-> session_type])
    /\ UNCHANGED gate

NextGate ==
    \/ ShouldRunCall /\ UNCHANGED gateFrame
    \/ GetNextSessionCall /\ UNCHANGED gateFrame
    \/ GateReturn /\ UNCHANGED gateFrame
    \/ SaveRunLog /\ UNCHANGED gateFrame

InitGate == GateInit /\ LedgerIdle /\ RunnerOff /\ ProcessesIdle /\ AgentIdle

SpecGate == InitGate /\ [][NextGate]_vars

----------------------------------------------------------------------------
(* SpecRace: two processes, each with its own ArenaRunner over the same     *)
(* database, run the first competitor's pipeline of the same non-dry-run   *)
(* run_session call. Each database statement is one step; the code between *)
(* two reads of the database is one step.                                  *)

Procs == {1, 2}

\* the competitor both processes run
Raced == CompetitorConfig(Competitors[1])

\* a process about to enter _run_competitor with the call's arguments
AtStart(call) ==
    [pc |-> "start", session_type |-> call.session_type,
     session_date |-> call.session_date, prices |-> get_prices(call.session_date),
     brokers |-> << >>]

\* a process whose _run_competitor has ended with the outcome out
AtEnd(proc, out) ==
    [pc |-> "done", session_type |-> proc.session_type,
     session_date |-> proc.session_date, prices |-> proc.prices,
     brokers |-> out.brokers, raised |-> out.raised, result |-> out.result,
     llm_calls |-> out.llm_calls, fills |-> out.fills]

RaceInit ==
    /\ \E sim \in SimulationConfigs : config = sim
    /\ storage = EmptyStorage
    /\ \E call \in {c \in SessionCalls : ~c.dry_run} :
        processes = [p \in Procs |-> AtStart(call)]
    /\ brokers = << >>
    /\ session = [status |-> "idle"]
    /\ pipeline = [n |-> 0]
    /\ completed = {}
    /\ nsessions = 0

raceFrame == <<broker, last, brokers, session, pipeline, completed, nsessions, config, gate, agent>>

\* lines 378-381: the already-ran check
AlreadyRanCheck ==
    \E p \in Procs :
        /\ processes[p].pc = "start"
        /\ processes' = [processes EXCEPT ![p] =
              IF has_run_today(storage, Raced.id, @.session_date, @.session_type)
              THEN AtEnd(@, Outcome(storage, @.brokers, FALSE, Skipped("already_ran"),
                                    << >>, << >>))
              ELSE [@ EXCEPT !.pc = "checked"]]
        /\ UNCHANGED storage

\* lines 383-448: the budget check, the broker, snapshot_before, the client
\* and the Strategist stage
StrategistStage ==
    \E p \in Procs, script \in Scripts :
        /\ processes[p].pc = "checked"
        /\ processes' = [processes EXCEPT ![p] =
              Then(daily_call_limit(Raced.provider),
                   LAMBDA limit :
              IF over_budget(get_daily_call_count(storage, Raced.provider, @.session_date),
                             limit)
              THEN AtEnd(@, Outcome(storage, @.brokers, FALSE, Skipped("call_limit"),
                                    << >>, << >>))
              ELSE
              Then(get_broker(storage, @.brokers, config, Raced),
                   LAMBDA brs0 :
              Then(update_prices(brs0[Raced.id], @.prices),
                   LAMBDA b :
              Then([brs0 EXCEPT ![Raced.id] = b],
                   LAMBDA brs1 :
              IF snapshot_raises(b)
              THEN AtEnd(@, Outcome(storage, brs1, TRUE, [error |-> "ValidationError"],
                                    << >>, << >>))
              ELSE IF ~script.client_ok
              THEN AtEnd(@, Outcome(storage, brs1, FALSE,
                                    [error |-> "Failed to create LLM client"],
                                    << >>, << >>))
              ELSE [pc |-> "proposed", session_type |-> @.session_type,
                    session_date |-> @.session_date, prices |-> @.prices,
                    brokers |-> brs1, b |-> b, snapshot_before |-> get_snapshot(b),
                    limit |-> limit, script |-> script,
                    s1 |-> run_stage(script.strategist, "strategist",
                                     "Strategist call failed", << >>, << >>)]))))]
        /\ UNCHANGED storage

\* lines 450-583: the budget re-check, the RiskGuard stage, execution and the
\* writes to the database
RiskGuardStage ==
    \E p \in Procs :
        /\ processes[p].pc = "proposed"
        /\ \E out \in {risk_guard_and_execute(storage, processes[p].brokers,
                           processes[p].b, Raced, processes[p].session_type,
                           processes[p].session_date, processes[p].prices, FALSE,
                           processes[p].script, p, processes[p].snapshot_before,
                           processes[p].limit, processes[p].s1)} :
            /\ storage' = out.storage
            /\ processes' = [processes EXCEPT ![p] = AtEnd(@, out)]

NextRace ==
    \/ AlreadyRanCheck /\ UNCHANGED raceFrame
    \/ StrategistStage /\ UNCHANGED raceFrame
    \/ RiskGuardStage /\ UNCHANGED raceFrame

InitRace == RaceInit /\ LedgerIdle /\ GateIdle /\ AgentIdle

SpecRace == InitRace /\ [][NextRace]_vars

----------------------------------------------------------------------------
(* Agents (agents/base.py): text is a sequence of tokens, each a run of     *)
(* characters the code never splits                                        *)

\* the tokens of a model's content: whitespace, a Markdown fence (three
\* backquotes, written <fence>), the word json, a document valid for
\* StrategistProposal, one valid for TradePlan
Tokens == {" ", "\n", "<fence>", "json", "{proposal}", "{plan}"}

MaxContent == 5

Contents == UNION {[1..n -> Tokens] : n \in 0..MaxContent}

\* LLMResponse(content, error); success is `error is None`
LLMResponse(content, error) == [content |-> content, error |-> error]

Whitespace == {" ", "\n"}

\* str.lstrip()
RECURSIVE lstrip(_)
lstrip(text) ==
    IF text # << >> /\ Head(text) \in Whitespace THEN lstrip(Tail(text)) ELSE text

\* str.rstrip()
RECURSIVE rstrip(_)
rstrip(text) ==
    IF text # << >> /\ text[Len(text)] \in Whitespace
    THEN rstrip(SubSeq(text, 1, Len(text) - 1))
    ELSE text

\* str.strip()
strip(text) == rstrip(lstrip(text))

\* str.find("\n"), counted from 1; 0 when there is none
RECURSIVE find_newline(_, _)
find_newline(text, from) ==
    IF from > Len(text) THEN 0
    ELSE IF text[from] = "\n" THEN from
    ELSE find_newline(text, from + 1)

\* text[n:], n counted in tokens
Drop(text, n) == SubSeq(text, n + 1, Len(text))

\* lines 133-143: the opening fence goes, with its line when there is one
remove_opening_fence(content) ==
    IF content # << >> /\ content[1] = "<fence>"
    THEN IF find_newline(content, 1) # 0
         THEN Drop(content, find_newline(content, 1))
         ELSE IF Len(content) >= 2 /\ content[2] = "json"
         THEN Drop(content, 2)
         ELSE Drop(content, 1)
    ELSE content

remove_closing_fence_never(content) == content

\* lines 146-147: the closing fence goes
remove_closing_fence(content) ==
    IF content # << >> /\ content[Len(content)] = "<fence>"
    THEN SubSeq(content, 1, Len(content) - 1)
    ELSE content

\* _clean_json_string
clean_json_string(content) ==
    strip(remove_closing_fence(remove_opening_fence(strip(content))))

\* the schema each agent parses into
ModelClass(agent_name) ==
    IF agent_name = "Strategist" THEN "StrategistProposal" ELSE "TradePlan"

\* model_class.model_validate_json(content): the object, or the exception
model_validate_json(model_class, content) ==
    IF content = <<"{proposal}">> /\ model_class = "StrategistProposal"
    THEN [raised |-> FALSE, parsed |-> [type |-> "StrategistProposal"]]
    ELSE IF content = <<"{plan}">> /\ model_class = "TradePlan"
    THEN [raised |-> FALSE, parsed |-> [type |-> "TradePlan"]]
    ELSE [raised |-> TRUE, exception |-> "ValidationError"]

\* AgentResult(success, output, raw_response, error)
AgentResult(success, output, raw_response, error) ==
    [success |-> success, output |-> output, raw_response |-> raw_response,
     error |-> error]

\* an error message, as the parts it is put together from
Message(parts) == [parts |-> parts]

\* _parse_response
parse_response(response, model_class) ==
    IF response.error # Nil
    THEN AgentResult(FALSE, Nil, response.content, response.error)
    ELSE Then(model_validate_json(model_class, clean_json_string(response.content)),
              LAMBDA validated :
              IF validated.raised
              THEN AgentResult(FALSE, Nil, response.content,
                               Message(<<"JSON parse error: ", validated.exception>>))
              ELSE AgentResult(TRUE, validated.parsed, response.content, Nil))

\* the agents and the model responses offered
AgentNames == {"Strategist", "RiskGuard"}

Errors == {Nil, Message(<<"API Error">>)}

AgentInit ==
    \E name \in AgentNames, content \in Contents, error \in Errors :
        agent = [name |-> name, call |-> "none",
                 response |-> LLMResponse(content, error)]

agentFrame == <<broker, last, storage, brokers, session, pipeline, completed, nsessions, config, gate, processes>>

\* agent.invoke(context): llm_client.generate gives the response, and
\* _parse_response(response, model_class) is returned
InvokeCall ==
    /\ agent.call = "none"
    /\ agent' = [name |-> agent.name, call |-> "invoke", response |-> agent.response,
                 result |-> parse_response(agent.response, ModelClass(agent.name))]

NextAgent ==
    \/ InvokeCall /\ UNCHANGED agentFrame

InitAgent == AgentInit /\ LedgerIdle /\ RunnerIdle /\ GateIdle /\ ProcessesIdle

SpecAgent == InitAgent /\ [][NextAgent]_vars

----------------------------------------------------------------------------
(* Properties of run_session (specification SpecRunner)                    *)

\* the key of the pipeline a state's `pipeline` records
PipelineKey(pl) == <<pl.competitor, pl.session_date, pl.session_type>>

\* C1: once a non-dry-run run_session call has completed a competitor's
\* pipeline for (competitor, date, session_type), the competitor's pipeline in
\* every later non-dry-run call with that date and session type returns
\* {skipped, reason: already_ran}, makes no model call, executes no order
\* (the broker cache is as it was) and leaves the database, the provider's
\* daily call count included, as it was.
C1_Idempotent ==
    [][(/\ pipeline'.n = pipeline.n + 1
        /\ ~pipeline'.dry_run
        /\ PipelineKey(pipeline') \in completed)
       => (/\ pipeline'.result = Skipped("already_ran")
           /\ pipeline'.llm_calls = << >>
           /\ pipeline'.fills = << >>
           /\ brokers' = brokers
           /\ storage'.trades = storage.trades
           /\ storage'.call_counters = storage.call_counters
           /\ storage' = storage)]_vars

\* C1 witness: a later non-dry-run call skipped a competitor whose earlier
\* pipeline for the same key had executed an order and counted its calls
C1_Witness ==
    /\ pipeline.n > 0
    /\ ~pipeline.dry_run
    /\ PipelineKey(pipeline) \in completed
    /\ pipeline.result = Skipped("already_ran")
    /\ \E i \in DOMAIN storage.trades : storage.trades[i].competitor_id = pipeline.competitor
    /\ \E r \in storage.run_logs :
        /\ r.competitor_id = pipeline.competitor
        /\ r.session_date = pipeline.session_date
        /\ r.session_type = pipeline.session_type
        /\ r.fills # << >>
        /\ get_daily_call_count(storage, "openrouter", r.session_date) >= Len(r.llm_calls)

\* a pipeline ran in this step
PipelineStep == pipeline'.n = pipeline.n + 1

\* the pipeline got past its gates and returned its result
ReturnedResult(pl) == "run_id" \in DOMAIN pl.result

\* what the ledger holds: cash, realized_pnl, and each position's qty and avg_cost
Holdings(b) ==
    [cash |-> b.cash, realized_pnl |-> b.realized_pnl,
     positions |-> [t \in DOMAIN b.positions |->
                      [qty |-> b.positions[t].qty, avg_cost |-> b.positions[t].avg_cost]]]

\* the stage hands over an object: an attempt succeeded or the repair parsed
Yields(stage) == stage.fails <= max_retries \/ stage.repair = "ok"

HasCall(llm_calls, call_type) ==
    \E i \in DOMAIN llm_calls : llm_calls[i].call_type = call_type

\* C11: a competitor's pipeline in a dry-run run_session call leaves the
\* database as it was (no trade, snapshot, run log or call count is written),
\* fills nothing, and leaves every ledger's cash, realized_pnl and positions'
\* qty and avg_cost as they were (a ledger first loaded in the call holds what
\* the latest stored snapshot, or the initial cash, gives); and when it gets
\* past the budget gate and the client's creation, the Strategist is invoked,
\* the RiskGuard is invoked when there is a proposal, and the result carries
\* the proposal and the plan they gave.
C11_DryRun ==
    [][(PipelineStep /\ pipeline'.dry_run) =>
        /\ storage' = storage
        /\ pipeline'.fills = << >>
        /\ \A c \in DOMAIN brokers :
              c \in DOMAIN brokers' /\ Holdings(brokers'[c]) = Holdings(brokers[c])
        /\ \A c \in (DOMAIN brokers') \ (DOMAIN brokers) :
              Holdings(brokers'[c]) =
                  Holdings(get_broker(storage, << >>, config, CompetitorConfig(c))[c])
        /\ ReturnedResult(pipeline') =>
              /\ pipeline'.llm_calls # << >>
              /\ pipeline'.llm_calls[1].call_type = "strategist"
              /\ pipeline'.result.fills = << >>
              /\ pipeline'.result.strategist_proposal =
                     (IF Yields(pipeline'.script.strategist) THEN Proposal ELSE Nil)
              /\ Yields(pipeline'.script.strategist) =>
                     /\ HasCall(pipeline'.llm_calls, "risk_guard")
                     /\ pipeline'.result.trade_plan =
                            (IF Yields(pipeline'.script.risk_guard)
                             THEN [orders |-> pipeline'.script.orders] ELSE Nil)]_vars

\* C11 witness: a dry-run pipeline returned a plan with a valid order for a
\* competitor whose ledger holds a position, and filled nothing
C11_Witness ==
    /\ pipeline.n > 0
    /\ pipeline.dry_run
    /\ ReturnedResult(pipeline)
    /\ pipeline.result.trade_plan # Nil
    /\ pipeline.result.trade_plan.orders = SellAAPL
    /\ \A i \in DOMAIN pipeline.result.errors : "order" \notin DOMAIN pipeline.result.errors[i]
    /\ pipeline.fills = << >>
    /\ "AAPL" \in DOMAIN brokers[pipeline.competitor].positions
    /\ storage.trades # << >>

ConfiguredIds == {Competitors[i] : i \in DOMAIN Competitors}

OkWithFields(r) ==
    DOMAIN r = {"run_id", "strategist_proposal", "trade_plan", "fills", "errors",
                "equity_before", "equity_after"}

SkippedWithReason(r) ==
    /\ DOMAIN r = {"skipped", "reason"}
    /\ r.skipped = TRUE
    /\ r.reason \in {"already_ran", "call_limit"}

ErrorOnly(r) == DOMAIN r = {"error"}

\* C12: the map run_session returns has exactly one entry per configured
\* competitor, each either ok-with-fields, {skipped, reason} or {error}; a
\* pipeline that raises gives {error} for its own competitor, leaves the other
\* entries as they were, and the loop goes on to the next competitor, so every
\* call runs one pipeline per competitor.
C12_Isolation ==
    /\ [](session.status = "returned" =>
            /\ DOMAIN session.results = ConfiguredIds
            /\ pipeline.n = nsessions * Len(Competitors)
            /\ \A c \in ConfiguredIds :
                  \/ OkWithFields(session.results[c])
                  \/ SkippedWithReason(session.results[c])
                  \/ ErrorOnly(session.results[c]))
    /\ [][(PipelineStep /\ pipeline'.raised) =>
            /\ pipeline'.competitor \in DOMAIN session'.results
            /\ ErrorOnly(session'.results[pipeline'.competitor])
            /\ \A c \in DOMAIN session.results :
                  c # pipeline'.competitor => session'.results[c] = session.results[c]
            /\ session'.status = "running"
            /\ session'.next = session.next + 1]_vars

\* C12 witness: the first competitor's pipeline raised, and the call returned
\* with the second competitor's pipeline run to its result
C12_Witness ==
    /\ session.status = "returned"
    /\ ErrorOnly(session.results[Competitors[1]])
    /\ session.results[Competitors[1]].error = "ValidationError"
    /\ pipeline.competitor = Competitors[2]
    /\ ~pipeline.raised
    /\ OkWithFields(session.results[Competitors[2]])
    /\ session.results[Competitors[2]].fills # << >>

\* the provider's stored call count for the date of the pipeline pl
StoredCount(st, pl) ==
    get_daily_call_count(st, CompetitorConfig(pl.competitor).provider, pl.session_date)

LimitOf(pl) == daily_call_limit(CompetitorConfig(pl.competitor).provider)

\* the pipeline pl starts with the budget gate closed on storage st
GateClosed(st, pl) == StoredCount(st, pl) + 2 > LimitOf(pl)

\* C13 as stated: a pipeline that starts with count + 2 > daily_limit stops
\* with {skipped, reason: call_limit} before any model call, and leaves the
\* ledgers and the database as they were.
C13_BudgetGate ==
    [][(PipelineStep /\ GateClosed(storage, pipeline')) =>
        /\ pipeline'.result = Skipped("call_limit")
        /\ pipeline'.llm_calls = << >>
        /\ brokers' = brokers
        /\ storage' = storage]_vars

\* C13 amended: a pipeline that starts with count + 2 > daily_limit stops
\* before any model call and leaves the ledgers and the database as they were;
\* its result is {skipped, reason: call_limit}, except in a non-dry-run call
\* for a competitor that already has a RunLog for the date and session type,
\* where the earlier check gives {skipped, reason: already_ran}.
C13_BudgetGateAfterIdempotency ==
    [][(PipelineStep /\ GateClosed(storage, pipeline')) =>
        /\ pipeline'.result =
              (IF ~pipeline'.dry_run
                  /\ has_run_today(storage, pipeline'.competitor,
                                   pipeline'.session_date, pipeline'.session_type)
               THEN Skipped("already_ran")
               ELSE Skipped("call_limit"))
        /\ pipeline'.llm_calls = << >>
        /\ pipeline'.fills = << >>
        /\ brokers' = brokers
        /\ storage' = storage]_vars

\* C13 witness: a competitor with a ledger in memory was stopped at the budget
\* gate with the count one short of the limit
C13_Witness ==
    /\ pipeline.n > 0
    /\ pipeline.result = Skipped("call_limit")
    /\ StoredCount(storage, pipeline) = LimitOf(pipeline) - 1
    /\ pipeline.competitor \in DOMAIN brokers
    /\ storage.run_logs # {}

\* C14: the stored daily call count of every provider, on every date, never
\* exceeds the provider's configured daily limit.
C14_CallCeiling ==
    \A k \in DOMAIN storage.call_counters :
        storage.call_counters[k] <= daily_call_limit(k[1])

\* the model invocations one agent stage makes: attempts up to the first
\* success, at most max_retries + 1, and one repair call when all of them failed
Attempts(stage) == IF stage.fails > max_retries THEN max_retries + 1 ELSE stage.fails + 1

Repairs(stage) == IF stage.fails > max_retries THEN 1 ELSE 0

CountCalls(llm_calls, call_type) ==
    Cardinality({i \in DOMAIN llm_calls : llm_calls[i].call_type = call_type})

\* C15: a non-dry-run pipeline that reaches persistence logs one entry per
\* model invocation made (each Strategist attempt, each RiskGuard attempt, each
\* repair call, successful or not), stores that log in its RunLog, and adds
\* the number of entries to the provider's daily call count, once, leaving
\* the other counters as they were.
C15_LoggedAndBilled ==
    [][(PipelineStep /\ ~pipeline'.dry_run /\ ReturnedResult(pipeline')) =>
        LET calls == pipeline'.llm_calls
            script == pipeline'.script
            provider == CompetitorConfig(pipeline'.competitor).provider
            guarded == Yields(script.strategist)
        IN  /\ CountCalls(calls, "strategist") = Attempts(script.strategist)
            /\ CountCalls(calls, "risk_guard") =
                  (IF guarded THEN Attempts(script.risk_guard) ELSE 0)
            /\ CountCalls(calls, "repair") =
                  Repairs(script.strategist)
                  + (IF guarded THEN Repairs(script.risk_guard) ELSE 0)
            /\ Len(calls) = CountCalls(calls, "strategist")
                            + CountCalls(calls, "risk_guard")
                            + CountCalls(calls, "repair")
            /\ \E r \in storage'.run_logs :
                  /\ r.run_id = pipeline'.result.run_id
                  /\ r.llm_calls = calls
            /\ DOMAIN storage'.call_counters =
                  DOMAIN storage.call_counters \cup {<<provider, pipeline'.session_date>>}
            /\ \A k \in DOMAIN storage'.call_counters :
                  storage'.call_counters[k] =
                      (IF k \in DOMAIN storage.call_counters
                       THEN storage.call_counters[k] ELSE 0)
                      + (IF k = <<provider, pipeline'.session_date>>
                         THEN Len(calls) ELSE 0)]_vars

\* C15 witness: a persisted pipeline with failed attempts and repair calls in
\* its log, billed on top of an earlier pipeline's calls
C15_Witness ==
    /\ pipeline.n > 1
    /\ ~pipeline.dry_run
    /\ ReturnedResult(pipeline)
    /\ Len(pipeline.llm_calls) = 6
    /\ CountCalls(pipeline.llm_calls, "repair") = 1
    /\ \E i \in DOMAIN pipeline.llm_calls : ~pipeline.llm_calls[i].success
    /\ StoredCount(storage, pipeline) > Len(pipeline.llm_calls)

\* the ledger a fresh orchestrator's get_broker creates for competitor id c
Restored(st, c) == get_broker(st, << >>, config, CompetitorConfig(c))[c]

\* every ledger in memory holds what a fresh orchestrator would restore
Restorable(st, brs) ==
    \A c \in DOMAIN brs : Holdings(Restored(st, c)) = Holdings(brs[c])

\* C16: a ledger restored from storage's latest snapshot has the cash,
\* realized_pnl and positions (qty, avg_cost) of the in-memory ledger: a
\* non-dry-run pipeline that completes leaves its competitor's ledger
\* restorable, and so does every step after it other than a pipeline that
\* raised; a competitor with no stored snapshot is restored at its
\* initial_cash with no positions and no realized_pnl.
C16_RestartEquivalence ==
    /\ [](\A c \in ConfiguredIds :
            c \notin DOMAIN storage.snapshots =>
                Holdings(Restored(storage, c)) =
                    [cash |-> CompetitorConfig(c).initial_cash,
                     realized_pnl |-> Zero, positions |-> << >>])
    /\ [][(PipelineStep /\ ~pipeline'.dry_run /\ ReturnedResult(pipeline')) =>
            /\ pipeline'.competitor \in DOMAIN brokers'
            /\ pipeline'.competitor \in DOMAIN storage'.snapshots
            /\ Holdings(Restored(storage', pipeline'.competitor)) =
                  Holdings(brokers'[pipeline'.competitor])]_vars
    /\ [][(Restorable(storage, brokers) /\ ~(PipelineStep /\ pipeline'.raised)) =>
            Restorable(storage', brokers')]_vars

\* C16 witness: after a restart, c1's ledger was restored from its snapshot
\* (c2's snapshot is stored, its ledger is not loaded yet), a pipeline sold
\* part of the restored position, and its second snapshot is stored
C16_Witness ==
    /\ session.status = "running"
    /\ DOMAIN brokers = {"c1"}
    /\ "c2" \in DOMAIN storage.snapshots
    /\ "c1" \in DOMAIN storage.snapshots
    /\ Len(storage.snapshots["c1"]) = 2
    /\ pipeline.competitor = "c1"
    /\ ~pipeline.dry_run
    /\ ReturnedResult(pipeline)
    /\ pipeline.fills # << >>
    /\ pipeline.fills[1].side = "SELL"
    /\ DOMAIN brokers["c1"].positions = {"AAPL"}
    /\ brokers["c1"].realized_pnl # Zero
    /\ Holdings(Restored(storage, "c1")) = Holdings(brokers["c1"])

\* snapshot_before as get_snapshot created it at the start of the pipeline of
\* competitor id c: the ledger after get_broker and update_prices(prices)
SnapshotAtStart(st, brs, c, prices) ==
    get_snapshot(update_prices(get_broker(st, brs, config, CompetitorConfig(c))[c], prices))

\* C17: the snapshot_before written into the RunLog, and the equity_before
\* computed from it, are those of the snapshot as it was created at the start
\* of the pipeline, whatever the plan executed after it.
C17_SnapshotImmutable ==
    [][(PipelineStep /\ ~pipeline'.dry_run /\ ReturnedResult(pipeline')) =>
        LET before == SnapshotAtStart(storage, brokers, pipeline'.competitor, session.prices)
        IN  /\ pipeline'.result.equity_before = equity(before)
            /\ \A r \in storage'.run_logs :
                  r.run_id = pipeline'.result.run_id => r.snapshot_before = before]_vars

\* the entries of one call type, in the order they were logged
CallsOf(llm_calls, call_type) ==
    SelectSeq(llm_calls, LAMBDA call : call.call_type = call_type)

\* a retry loop's log: between 1 and max_retries + 1 entries, every one but
\* the last a failure
RetryLog(calls) ==
    /\ Len(calls) >= 1
    /\ Len(calls) <= max_retries + 1
    /\ \A i \in 1 .. Len(calls) - 1 : ~calls[i].success

\* C21: _invoke_with_retry invokes the agent at least once and at most
\* max_retries + 1 times, logs one entry per invocation, stops at the first
\* successful invocation and returns it, and otherwise returns the last failed
\* result; in a pipeline's log the Strategist entries, and the RiskGuard
\* entries when there are any, are such a loop's.
C21_BoundedRetry ==
    /\ \A fails \in 0 .. max_retries + 2, call_type \in {"strategist", "risk_guard"} :
          LET result == invoke_with_retry(Stage(fails, "text", "ok"), call_type, << >>)
              calls == result.llm_calls
          IN  /\ RetryLog(calls)
              /\ Len(calls) = (IF fails > max_retries THEN max_retries + 1 ELSE fails + 1)
              /\ \A i \in DOMAIN calls : calls[i].call_type = call_type
              /\ result.success = calls[Len(calls)].success
              /\ result.success = (fails <= max_retries)
    /\ (pipeline.n > 0 /\ ReturnedResult(pipeline)) =>
          /\ RetryLog(CallsOf(pipeline.llm_calls, "strategist"))
          /\ pipeline.llm_calls[1].call_type = "strategist"
          /\ HasCall(pipeline.llm_calls, "risk_guard") =>
                RetryLog(CallsOf(pipeline.llm_calls, "risk_guard"))

\* C21 witness: a pipeline whose Strategist succeeded at the second attempt
\* and whose RiskGuard failed all max_retries + 1 attempts
C21_Witness ==
    /\ pipeline.n > 0
    /\ ReturnedResult(pipeline)
    /\ Len(CallsOf(pipeline.llm_calls, "strategist")) = 2
    /\ CallsOf(pipeline.llm_calls, "strategist")[2].success
    /\ Len(CallsOf(pipeline.llm_calls, "risk_guard")) = max_retries + 1
    /\ \A i \in 1 .. max_retries + 1 : ~CallsOf(pipeline.llm_calls, "risk_guard")[i].success

\* the stage's retries are exhausted and its last attempt left text to repair
RepairDue(stage) == stage.fails > max_retries /\ stage.raw # ""

\* C22: for each stage a repair call is issued only when all max_retries + 1
\* attempts failed and the last attempt left a non-empty raw response; at most
\* one repair call is made per stage, it is logged with call_type "repair",
\* and when its output parses it becomes the stage's output.
C22_RepairEscalation ==
    (pipeline.n > 0 /\ ReturnedResult(pipeline)) =>
        LET calls == pipeline.llm_calls
            script == pipeline.script
            guarded == HasCall(calls, "risk_guard")
        IN  /\ CountCalls(calls, "repair") =
                  (IF RepairDue(script.strategist) THEN 1 ELSE 0)
                  + (IF guarded /\ RepairDue(script.risk_guard) THEN 1 ELSE 0)
            /\ \A i \in DOMAIN calls :
                  calls[i].call_type = "repair" =>
                      /\ i > max_retries + 1
                      /\ \A j \in i - (max_retries + 1) .. i - 1 :
                            /\ ~calls[j].success
                            /\ calls[j].call_type = calls[i - 1].call_type
                            /\ calls[j].call_type # "repair"
            /\ (RepairDue(script.strategist) /\ script.strategist.repair = "ok") =>
                  pipeline.result.strategist_proposal = Proposal
            /\ (guarded /\ RepairDue(script.risk_guard) /\ script.risk_guard.repair = "ok") =>
                  pipeline.result.trade_plan = [orders |-> script.orders]

\* a stage of the pipeline's script ran and yielded no object
StageFailed(pl) ==
    /\ HasCall(pl.llm_calls, "strategist")
    /\ ~Yields(pl.script.strategist) \/ ~Yields(pl.script.risk_guard)

\* C23: when every Strategist attempt and its repair fail, RiskGuard is not
\* invoked; when the Strategist stage or the RiskGuard stage yields no object
\* the pipeline does not raise, fills nothing, leaves the ledger's cash,
\* realized_pnl and positions (qty, avg_cost) as they were, records an error,
\* returns an ok-shaped result with trade_plan = nil and fills = [], and when
\* not a dry run stores the RunLog and no trade.
C23_DegradesToHold ==
    [][(PipelineStep /\ StageFailed(pipeline')) =>
        LET c == pipeline'.competitor
            before == get_broker(storage, brokers, config, CompetitorConfig(c))[c]
        IN  /\ ~Yields(pipeline'.script.strategist) =>
                  ~HasCall(pipeline'.llm_calls, "risk_guard")
            /\ ~pipeline'.raised
            /\ OkWithFields(pipeline'.result)
            /\ pipeline'.result.trade_plan = Nil
            /\ pipeline'.result.fills = << >>
            /\ pipeline'.fills = << >>
            /\ pipeline'.result.errors # << >>
            /\ \E i \in DOMAIN pipeline'.result.errors :
                  pipeline'.result.errors[i].error \in
                      {"Strategist call failed", "RiskGuard call failed"}
            /\ Holdings(brokers'[c]) = Holdings(before)
            /\ storage'.trades = storage.trades
            /\ IF pipeline'.dry_run THEN storage' = storage
               ELSE \E r \in storage'.run_logs :
                       /\ r.run_id = pipeline'.result.run_id
                       /\ r.trade_plan = Nil
                       /\ r.fills = << >>]_vars

\* C23 witness: a non-dry-run pipeline of a competitor holding a position
\* whose RiskGuard attempts and repair all failed, returned as a HOLD
C23_Witness ==
    /\ pipeline.n > 0
    /\ ~pipeline.dry_run
    /\ HasCall(pipeline.llm_calls, "risk_guard")
    /\ ~Yields(pipeline.script.risk_guard)
    /\ ReturnedResult(pipeline)
    /\ pipeline.result.trade_plan = Nil
    /\ pipeline.competitor \in DOMAIN brokers
    /\ DOMAIN brokers[pipeline.competitor].positions # {}

\* the order produced a fill in the pipeline
FilledOrder(fills, order) ==
    \E i \in DOMAIN fills :
        /\ fills[i].ticker = order.ticker
        /\ fills[i].side = order.side
        /\ fills[i].qty = order.qty

\* errors[] has an entry for the order
ErrorFor(errors, order) ==
    \E i \in DOMAIN errors :
        "order" \in DOMAIN errors[i] /\ errors[i].order = order

\* C24: in a non-dry-run pipeline every order of the trade plan that produces
\* no fill (no price for its ticker, or rejected by the ledger when it is
\* validated or when it is executed after the plan's earlier orders) has an
\* entry in errors[] and leaves its ticker's position as it was, and the
\* plan's other orders are still processed: each is filled or has an entry.
C24_UnfilledAccounted ==
    [][(/\ PipelineStep
        /\ ~pipeline'.dry_run
        /\ ReturnedResult(pipeline')
        /\ pipeline'.result.trade_plan # Nil) =>
        LET c == pipeline'.competitor
            orders == pipeline'.result.trade_plan.orders
            before == get_broker(storage, brokers, config, CompetitorConfig(c))[c]
        IN  \A i \in DOMAIN orders :
                \/ FilledOrder(pipeline'.fills, orders[i])
                \/ /\ ErrorFor(pipeline'.result.errors, orders[i])
                   /\ get_position_qty(brokers'[c], orders[i].ticker) =
                         get_position_qty(before, orders[i].ticker)]_vars

\* the storage writes of this step, in order
Written == SubSeq(storage'.journal, Len(storage.journal) + 1, Len(storage'.journal))

CountOf(tags, tag) == Len(SelectSeq(tags, LAMBDA t : t = tag))

\* C25: within one competitor's pipeline (a) a model call is made only when
\* the already-ran check and the budget check have both passed on the storage
\* the pipeline started with; (b) every RiskGuard call comes after a Strategist
\* output obtained in the same pipeline from a successful attempt or a
\* successful repair; (c) every executed order belongs to the TradePlan that
\* RiskGuard produced in the same pipeline; (d) save_run_log is the last
\* storage write, made after one save_trade per fill and after the snapshot
\* was saved.
C25_StageOrder ==
    [][PipelineStep =>
        LET pl == pipeline'
            calls == pipeline'.llm_calls
        IN  /\ calls # << >> =>
                /\ pl.dry_run \/ ~has_run_today(storage, pl.competitor,
                                                pl.session_date, pl.session_type)
                /\ ~GateClosed(storage, pl)
                /\ calls[1].call_type = "strategist"
            /\ \A j \in DOMAIN calls :
                calls[j].call_type = "risk_guard" =>
                    /\ Yields(pl.script.strategist)
                    /\ \E i \in 1..(j - 1) :
                        /\ calls[i].call_type \in {"strategist", "repair"}
                        /\ calls[i].success
                    /\ \A k \in DOMAIN calls : k > j => calls[k].call_type # "strategist"
                    /\ ReturnedResult(pl) => pl.result.strategist_proposal = Proposal
            /\ pl.fills # << >> =>
                /\ HasCall(calls, "risk_guard")
                /\ Yields(pl.script.risk_guard)
                /\ \A i \in DOMAIN pl.fills :
                    \E o \in DOMAIN pl.script.orders :
                        FilledOrder(<<pl.fills[i]>>, pl.script.orders[o])
                /\ ReturnedResult(pl) =>
                    /\ pl.result.trade_plan # Nil
                    /\ pl.result.trade_plan.orders = pl.script.orders
            /\ Len(storage'.journal) >= Len(storage.journal)
            /\ SubSeq(storage'.journal, 1, Len(storage.journal)) = storage.journal
            /\ CountOf(Written, "trades") = Len(pl.fills)
            /\ (ReturnedResult(pl) /\ ~pl.dry_run) <=> CountOf(Written, "run_logs") = 1
            /\ CountOf(Written, "run_logs") <= 1
            /\ \A i \in DOMAIN Written :
                Written[i] = "run_logs" =>
                    /\ i = Len(Written)
                    /\ i = Len(pl.fills) + 3
                    /\ \A t \in 1..Len(pl.fills) : Written[t] = "trades"
                    /\ Written[i - 1] = "snapshots"]_vars

\* C25 witness: a non-dry-run pipeline made Strategist and RiskGuard calls,
\* filled an order of the plan, and wrote the trade, the call count, the
\* snapshot and last the run log
C25_Witness ==
    /\ pipeline.n > 0
    /\ ~pipeline.dry_run
    /\ ReturnedResult(pipeline)
    /\ HasCall(pipeline.llm_calls, "risk_guard")
    /\ Len(pipeline.fills) = 1
    /\ Len(storage.journal) >= 4
    /\ SubSeq(storage.journal, Len(storage.journal) - 3, Len(storage.journal)) =
          <<"trades", "call_counters", "snapshots", "run_logs">>

\* config.markets of the runner under test: the US equity market of its tickers
RunnerMarkets == <<USEquity>>

\* date.fromisoformat
FromIsoformat(date_str) == CHOOSE day \in 0..15 : Isoformat(day) = date_str

\* should_run reports the market's session of the day eligible at some `now`
\* of that day, prior runs left aside
GateAdmits(market, session_type, day) ==
    \E now \in Nows :
        /\ DateOf(now) = day
        /\ should_run(EmptyStorage, market, session_type, now).ok

\* C26: run_session makes model calls and executes orders for a session only
\* if should_run reports the session eligible; for a session the gate rejects
\* (its date is not a trading day of any configured market, or no time of the
\* day is inside the window) no pipeline makes a model call or fills an order.
C26_GatePrecedes ==
    [][(/\ PipelineStep
        /\ pipeline'.llm_calls # << >> \/ pipeline'.fills # << >>) =>
        \E i \in DOMAIN RunnerMarkets :
            GateAdmits(RunnerMarkets[i], pipeline'.session_type,
                       FromIsoformat(pipeline'.session_date))]_vars

----------------------------------------------------------------------------
(* Properties of the SessionGate (specification SpecGate)                  *)

\* the instant `now` stands for, in minutes of UTC; a naive reading is taken
\* as a reading of the market's clock
InstantAt(now, market_type) ==
    IF now.aware THEN Utc(now) ELSE now.wall - TzOffset(AdapterTimezone(market_type))

\* now lies inside the inclusive window of today's session
InsideWindow(market_type, session_type, now) ==
    LET times == get_session_times(market_type, DateOf(now))
        at == InstantAt(now, market_type)
    IN  /\ times # Nil
        /\ IF session_type = "OPEN"
           THEN Utc(times.open_time) - 5 <= at /\ at <= Utc(times.open_time) + 30
           ELSE Utc(times.close_time) - 30 <= at /\ at <= Utc(times.close_time) + 5

\* storage holds a RunLog of a configured competitor for (day, session_type)
PriorRun(day, session_type) ==
    \E r \in storage.run_logs :
        /\ \E i \in DOMAIN Competitors : r.competitor_id = Competitors[i]
        /\ r.session_date = Isoformat(day)
        /\ r.session_type = session_type

\* the reading of the market's clock that `now` stands for, in minutes of today
MarketClock(now, market_type) ==
    InstantAt(now, market_type) + TzOffset(AdapterTimezone(market_type))
    - DateOf(now) * MinutesPerDay

EquityCall == gate.call = "should_run" /\ gate.market.type # "crypto"

C19_FailsClosed ==
    (gate.call = "should_run" /\ PriorRun(DateOf(gate.now), gate.session_type)) =>
        /\ ~gate.result.ok
        /\ gate.result # Returned(TRUE, "OK")
        /\ ~gate.result.raised => gate.result.reason # "OK"

\* C19 witness: inside the crypto CLOSE window (11:50 for 12:00 UTC) and inside
\* the equity OPEN window, with a RunLog of the second competitor only, the
\* gate answered "Already ran"
C19_Witness ==
    /\ gate.call = "should_run"
    /\ gate.result = Returned(FALSE, "Already ran")
    /\ \/ /\ gate.market = Crypto
          /\ gate.session_type = "CLOSE"
          /\ gate.now = Datetime(TRUE, MinutesPerDay + HM(11, 50), 0)
       \/ /\ gate.market = SGEquity
          /\ gate.session_type = "OPEN"
          /\ gate.now = Datetime(TRUE, MinutesPerDay + HM(9, 30), TzOffset("Asia/Singapore"))
    /\ \A r \in storage.run_logs : r.competitor_id = Competitors[2]

\* the open and close instants of the configured markets, from today through
\* the 7 following days, that are strictly later than now
Upcoming(markets, now) ==
    {s \in UNION {
        LET times == get_session_times(markets[i].type, day)
        IN  IF times = Nil THEN {}
            ELSE {NextSession(markets[i].type, "OPEN", times.open_time),
                  NextSession(markets[i].type, "CLOSE", times.close_time)} :
        i \in DOMAIN markets, day \in DateOf(now) .. DateOf(now) + 7} :
     Utc(s.time) > Utc(now)}

\* C20: get_next_session returns the session with the smallest time among the
\* open and close instants of all configured markets, from today through the
\* 7 following days, that are strictly later than now, and none when there
\* is no such instant or no market is configured.
C20_EarliestUpcoming ==
    gate.call = "get_next_session" =>
        /\ ~gate.result.raised
        /\ gate.markets = << >> => gate.result.value = Nil
        /\ gate.now.aware =>
              LET upcoming == Upcoming(gate.markets, gate.now)
              IN  IF upcoming = {} THEN gate.result.value = Nil
                  ELSE /\ gate.result.value \in upcoming
                       /\ \A s \in upcoming :
                             Utc(gate.result.value.time) <= Utc(s.time)

----------------------------------------------------------------------------
(* Properties of concurrent runs (specification SpecRace)                  *)

\* the process passed the already-ran check and executed an order
Executed(proc) == proc.pc = "done" /\ proc.fills # << >>

\* the RunLogs stored for the processes' (competitor, date, session_type)
RunLogsOf(st, proc) ==
    {r \in st.run_logs :
        /\ r.competitor_id = Raced.id
        /\ r.session_date = proc.session_date
        /\ r.session_type = proc.session_type}

\* C27: when two processes run the same non-dry-run session for the same
\* competitor against one storage, at most one of them passes the already-ran
\* check and executes orders, and storage holds at most one RunLog for the
\* (competitor, date, session_type).
C27_NoRace ==
    /\ Cardinality({p \in Procs : Executed(processes[p])}) <= 1
    /\ \A p \in Procs : Cardinality(RunLogsOf(storage, processes[p])) <= 1

----------------------------------------------------------------------------
(* Properties of an agent's invoke (specification SpecAgent)               *)

\* the document of the agent's schema
Document(agent_name) == IF agent_name = "Strategist" THEN "{proposal}" ELSE "{plan}"

Blank(text) == \A i \in DOMAIN text : text[i] \in Whitespace

\* text is an opening fence of the trimmed content core: the fence and its
\* line, or, in a content of one line, the fence and an optional json tag;
\* or nothing, when core does not open with a fence
OpeningFence(text, core) ==
    \/ text = << >> /\ (core = << >> \/ core[1] # "<fence>")
    \/ /\ Len(text) >= 2
       /\ text[1] = "<fence>"
       /\ text[Len(text)] = "\n"
       /\ \A i \in 2..(Len(text) - 1) : text[i] # "\n"
    \/ /\ \A i \in DOMAIN core : core[i] # "\n"
       /\ \/ text = <<"<fence>", "json">>
          \/ text = <<"<fence>">> /\ (Len(core) < 2 \/ core[2] # "json")

\* content is the agent's document, with whitespace around it and, around
\* that, an opening fence, a closing fence, both or none; with paired, both
\* or none
DocumentIn(content, agent_name, paired) ==
    \E a \in 0..Len(content), d \in 0..Len(content) :
        /\ a <= d
        /\ Blank(SubSeq(content, 1, a))
        /\ Blank(SubSeq(content, d + 1, Len(content)))
        /\ (a < d => content[a + 1] \notin Whitespace /\ content[d] \notin Whitespace)
        /\ \E b \in a..d, c \in a..d :
            /\ b <= c
            /\ OpeningFence(SubSeq(content, a + 1, b), SubSeq(content, a + 1, d))
            /\ SubSeq(content, c + 1, d) \in {<< >>, <<"<fence>">>}
            /\ (c > b /\ content[c] = "<fence>") => SubSeq(content, c + 1, d) = <<"<fence>">>
            /\ paired => (b = a <=> c = d)
            /\ \E i \in (b + 1)..c :
                /\ content[i] = Document(agent_name)
                /\ Blank(SubSeq(content, b + 1, i - 1))
                /\ Blank(SubSeq(content, i + 1, c))

\* the document inside a fence that surrounds it, or with no fence at all
SurroundedDocument(content, agent_name) == DocumentIn(content, agent_name, TRUE)

\* the document with an opening fence, a closing fence, both or none
FencedDocument(content, agent_name) == DocumentIn(content, agent_name, FALSE)

\* C28 as stated: invoke returns success = true exactly when the model
\* reported no error and its content, once a surrounding Markdown code fence
\* is stripped, validates against the agent's schema.
C28_InvokeResult ==
    agent.call = "invoke" =>
        (agent.result.success <=>
            /\ agent.response.error = Nil
            /\ SurroundedDocument(agent.response.content, agent.name))

\* C28 amended: invoke returns success = true with an output of the agent's
\* schema exactly when the model reported no error and its content, once
\* whitespace, an opening fence (with the rest of its line) and a closing
\* fence are stripped, each whether or not the other is there, validates
\* against the schema; otherwise success = false, output is None and error
\* is not None: the model's error, or one that starts with "JSON parse
\* error". raw_response is the model's content in every case.
C28_InvokeResultEitherFence ==
    agent.call = "invoke" =>
        /\ agent.result.raw_response = agent.response.content
        /\ agent.result.success <=>
              /\ agent.response.error = Nil
              /\ FencedDocument(agent.response.content, agent.name)
        /\ agent.result.success =>
              /\ agent.result.output = [type |-> ModelClass(agent.name)]
              /\ agent.result.error = Nil
        /\ ~agent.result.success =>
              /\ agent.result.output = Nil
              /\ agent.result.error # Nil
              /\ IF agent.response.error # Nil
                 THEN agent.result.error = agent.response.error
                 ELSE agent.result.error.parts[1] = "JSON parse error: "

\* C28 witness: a document followed by a closing fence, with none opening,
\* was parsed
C28_Witness ==
    /\ agent.call = "invoke"
    /\ agent.response.content = <<"{plan}", "\n", "<fence>">>
    /\ agent.result.success
    /\ agent.result.output = [type |-> "TradePlan"]

----------------------------------------------------------------------------
(* Properties of the ledger (specification Spec)                           *)

Filled(l) == l.op = "execute_order" /\ l.fill # Nil
FilledSide(l, side) == Filled(l) /\ l.fill.side = side

\* quantity of ticker t bought minus quantity sold over a list of fills
RECURSIVE NetQty(_, _)
NetQty(fills, t) ==
    IF fills = << >> THEN 0
    ELSE LET f == fills[Len(fills)]
             rest == SubSeq(fills, 1, Len(fills) - 1)
         IN  NetQty(rest, t) + (IF f.ticker # t THEN 0
                                ELSE IF f.side = "BUY" THEN f.qty ELSE -f.qty)

\* C2: the ledger's cash is never negative, whatever slippage_bps and fee_bps
\* the broker was built with and whatever orders it is given.
C2_CashNeverNegative == RLeq(Zero, broker.cash)

\* C3: every entry of the positions map has qty > 0: the held quantity of a
\* ticker is what was bought minus what was sold, and a ticker whose held
\* quantity is 0 is absent from the map (get_position returns nil).
C3_NoZeroResidue ==
    \A t \in Tickers :
        LET net == NetQty(broker.fill_history, t)
        IN  IF net = 0
            THEN t \notin DOMAIN broker.positions /\ get_position(broker, t) = Nil
            ELSE /\ t \in DOMAIN broker.positions
                 /\ broker.positions[t].qty = net
                 /\ broker.positions[t].qty > 0

C3_Witness ==
    \E t \in Tickers :
        /\ get_position(broker, t) = Nil
        /\ \E i \in 1..Len(broker.fill_history) :
              broker.fill_history[i].ticker = t /\ broker.fill_history[i].side = "SELL"

\* C4: right after a BUY that execute_order filled, the bought ticker's position
\* (held qty x reference price) is at most max_position_pct of the account
\* equity (cash + value of all positions).
C4_NoOverConcentration ==
    FilledSide(last, "BUY") =>
        RLeq(RMul(R(broker.positions[last.fill.ticker].qty), R(last.price)),
             RMul(broker.max_position_pct, equity(get_snapshot(broker))))

\* C5: an order that validate_order rejects makes execute_order return nil and
\* leaves the broker (cash, positions, realized_pnl, fill_history) as it was; an
\* order it accepts is filled for the whole requested quantity.
C5_RejectedChangesNothing ==
    /\ [](\A o \in Orders, p \in PriceValues :
            LET v == validate_order(broker, o, R(p))
                r == execute_order(broker, o, R(p))
                held == get_position_qty(broker, o.ticker)
            IN  IF v.ok
                THEN /\ r.fill # Nil
                     /\ r.fill.qty = o.qty
                     /\ get_position_qty(r.b, o.ticker) =
                            (IF o.side = "BUY" THEN held + o.qty ELSE held - o.qty)
                ELSE r.fill = Nil /\ r.b = broker)
    /\ [][(last'.op = "execute_order" /\ last'.fill = Nil) => broker' = broker]_vars

C5_Witness ==
    /\ last.op = "execute_order"
    /\ last.fill = Nil
    /\ last.reason = "Position would exceed max"
    /\ broker.fill_history # << >>

ContainsShares(reason) == reason = "Insufficient shares"
ContainsCash(reason) == reason = "Insufficient cash"
ContainsExceed(reason) == reason = "Position would exceed max"

\* C6: a SELL of more than the held quantity (0 if the ticker is not held) is
\* rejected with a reason containing "shares"; a SELL of at most the held
\* quantity is accepted; no held quantity is ever negative.
C6_SellValidation ==
    /\ \A o \in Orders, p \in PositivePrices :
          o.side = "SELL" =>
              LET r == validate_order(broker, o, R(p))
                  held == IF o.ticker \in DOMAIN broker.positions
                          THEN broker.positions[o.ticker].qty ELSE 0
              IN  IF o.qty > held
                  THEN ~r.ok /\ ContainsShares(r.reason)
                  ELSE r.ok
    /\ \A t \in DOMAIN broker.positions : broker.positions[t].qty >= 0
    /\ \A t \in Tickers : NetQty(broker.fill_history, t) >= 0

C6_Witness ==
    /\ last.op = "validate_order"
    /\ last.side = "SELL"
    /\ ContainsShares(last.result.reason)
    /\ DOMAIN broker.positions # {}

\* C7: a BUY with qty >= 1 at a positive price is accepted exactly when
\* qty*price*1.005 <= cash and (qty*price + market value of the position already
\* held in the ticker) <= max_position_pct * (equity + qty*price*1.005);
\* otherwise the reason contains "cash" (cash test failed) or "exceed".
C7_BuyValidation ==
    \A o \in Orders, p \in PositivePrices :
        o.side = "BUY" =>
            LET r == validate_order(broker, o, R(p))
                cost == R(o.qty * p)
                buffered == Norm(o.qty * p * 1005, 1000)
                held == IF o.ticker \in DOMAIN broker.positions
                        THEN RMul(R(broker.positions[o.ticker].qty),
                                  broker.positions[o.ticker].current_price)
                        ELSE Zero
                eq == RAdd(broker.cash, SumValues(broker.positions, DOMAIN broker.positions))
                cashOk == RLeq(buffered, broker.cash)
                pctOk == RLeq(RAdd(cost, held),
                              RMul(broker.max_position_pct, RAdd(eq, buffered)))
            IN  /\ r.ok <=> (cashOk /\ pctOk)
                /\ ~cashOk => ContainsCash(r.reason)
                /\ (cashOk /\ ~pctOk) => ContainsExceed(r.reason)

C7_Witness ==
    /\ last.op = "validate_order"
    /\ last.side = "BUY"
    /\ ContainsExceed(last.result.reason)
    /\ DOMAIN broker.positions # {}

\* total paid (qty * fill_price) for ticker t over a list of fills
RECURSIVE Paid(_, _)
Paid(fills, t) ==
    IF fills = << >> THEN Zero
    ELSE LET f == fills[Len(fills)]
             rest == SubSeq(fills, 1, Len(fills) - 1)
         IN  IF f.ticker = t
             THEN RAdd(Paid(rest, t), RMul(R(f.qty), f.fill_price))
             ELSE Paid(rest, t)

OnlyBuys(fills, t) ==
    \A i \in 1..Len(fills) : fills[i].ticker = t => fills[i].side = "BUY"

\* C8: an executed BUY of q at fill price p takes q*p + fees from cash and sets
\* the position to qty = old_qty + q, avg_cost = (old_qty*old_avg_cost + q*p) /
\* (old_qty + q), or to qty = q, avg_cost = p when the ticker was not held; so
\* after only BUYs of a ticker its avg_cost is (sum of q_i*p_i) / (sum of q_i).
C8_BuyBookkeeping ==
    /\ [][FilledSide(last', "BUY") =>
            LET f == last'.fill
                t == f.ticker
                now == broker'.positions[t]
            IN  /\ broker'.cash = RSub(broker.cash, RAdd(RMul(R(f.qty), f.fill_price), f.fees))
                /\ IF t \in DOMAIN broker.positions
                   THEN LET old == broker.positions[t]
                        IN  /\ now.qty = old.qty + f.qty
                            /\ RMul(now.avg_cost, R(old.qty + f.qty)) =
                                   RAdd(RMul(R(old.qty), old.avg_cost),
                                        RMul(R(f.qty), f.fill_price))
                   ELSE now.qty = f.qty /\ now.avg_cost = f.fill_price
                /\ broker'.realized_pnl = broker.realized_pnl
                /\ \A u \in DOMAIN broker.positions : u # t =>
                       broker'.positions[u] = broker.positions[u]]_vars
    /\ [](\A t \in DOMAIN broker.positions :
            OnlyBuys(broker.fill_history, t) =>
                RMul(broker.positions[t].avg_cost, R(NetQty(broker.fill_history, t))) =
                    Paid(broker.fill_history, t))

C8_Witness ==
    /\ FilledSide(last, "BUY")
    /\ Len(broker.fill_history) >= 2
    /\ OnlyBuys(broker.fill_history, last.fill.ticker)
    /\ broker.positions[last.fill.ticker].qty > last.fill.qty
    /\ broker.positions[last.fill.ticker].avg_cost # last.fill.fill_price
    /\ broker.fee_bps > 0

\* C9 as stated: a SELL of exactly the held quantity q removes the position and
\* adds q*(sell_fill_price - avg_cost) to realized_pnl; a partial SELL leaves
\* the avg_cost of the remaining shares unchanged.
C9_FullClose ==
    [][(FilledSide(last', "SELL") /\ last'.fill.ticker \in DOMAIN broker.positions) =>
            LET f == last'.fill
                old == broker.positions[f.ticker]
            IN  IF f.qty = old.qty
                THEN /\ get_position(broker', f.ticker) = Nil
                     /\ broker'.realized_pnl =
                            RAdd(broker.realized_pnl,
                                 RMul(R(f.qty), RSub(f.fill_price, old.avg_cost)))
                ELSE /\ broker'.positions[f.ticker].avg_cost = old.avg_cost
                     /\ broker'.positions[f.ticker].qty = old.qty - f.qty]_vars

\* C9 amended: a SELL of exactly the held quantity q removes the position and
\* adds q*(sell_fill_price - avg_cost) - fees to realized_pnl (fees = 0 when
\* fee_bps = 0); a partial SELL leaves the avg_cost of the remaining shares
\* unchanged; either way cash grows by q*sell_fill_price - fees.
C9_FullCloseNetOfFees ==
    [][(FilledSide(last', "SELL") /\ last'.fill.ticker \in DOMAIN broker.positions) =>
            LET f == last'.fill
                old == broker.positions[f.ticker]
            IN  /\ IF f.qty = old.qty
                   THEN /\ get_position(broker', f.ticker) = Nil
                        /\ broker'.realized_pnl =
                               RSub(RAdd(broker.realized_pnl,
                                         RMul(R(f.qty), RSub(f.fill_price, old.avg_cost))),
                                    f.fees)
                   ELSE /\ broker'.positions[f.ticker].avg_cost = old.avg_cost
                        /\ broker'.positions[f.ticker].qty = old.qty - f.qty
                /\ broker'.cash = RAdd(broker.cash, RSub(RMul(R(f.qty), f.fill_price), f.fees))
                /\ (broker.fee_bps = 0 => f.fees = Zero)]_vars

C9_Witness ==
    /\ FilledSide(last, "SELL")
    /\ get_position(broker, last.fill.ticker) = Nil
    /\ broker.fee_bps > 0
    /\ broker.realized_pnl # Zero

\* C10: with slippage_bps > 0 a BUY fills at base_price*(1 + slippage_bps/10000)
\* > base_price and a SELL at base_price*(1 - slippage_bps/10000) < base_price;
\* notional = qty*fill_price, fees = notional*fee_bps/10000, and the recorded
\* slippage is base_price*slippage_bps/10000*qty, positive for BUY and negative
\* for SELL.
C10_FillPricing ==
    (Filled(last) /\ broker.slippage_bps > 0) =>
        LET f == last.fill
            base == last.price
            sign == IF f.side = "BUY" THEN 1 ELSE -1
        IN  /\ base > 0
            /\ f.fill_price = Norm(base * (10000 + sign * broker.slippage_bps), 10000)
            /\ IF f.side = "BUY" THEN RLt(R(base), f.fill_price)
                                 ELSE RLt(f.fill_price, R(base))
            /\ f.notional = RMul(R(f.qty), f.fill_price)
            /\ f.fees = RDiv(RMul(f.notional, R(broker.fee_bps)), R(10000))
            /\ f.slippage = Norm(sign * base * broker.slippage_bps * f.qty, 10000)
            /\ IF f.side = "BUY" THEN RLt(Zero, f.slippage) ELSE RLt(f.slippage, Zero)
            /\ f.qty = last.order.qty

C10_Witness ==
    /\ FilledSide(last, "SELL")
    /\ broker.slippage_bps > 0
    /\ broker.fee_bps > 0
    /\ last.fill.qty > 1

\* the cost basis held: sum over the positions of S of qty * avg_cost
RECURSIVE CostBasis(_, _)
CostBasis(positions, S) ==
    IF S = {} THEN Zero
    ELSE LET t == CHOOSE x \in S : TRUE
         IN  RAdd(RMul(R(positions[t].qty), positions[t].avg_cost),
                  CostBasis(positions, S \ {t}))

\* the fees of the filled BUY orders of a fill list
RECURSIVE BuyFees(_)
BuyFees(fills) ==
    IF fills = << >> THEN Zero
    ELSE RAdd(IF Head(fills).side = "BUY" THEN Head(fills).fees ELSE Zero,
              BuyFees(Tail(fills)))

\* cash + cost basis held - realized_pnl
Book(b) ==
    RSub(RAdd(b.cash, CostBasis(b.positions, DOMAIN b.positions)), b.realized_pnl)

SameAmount(a, b) == RLeq(a, b) /\ RLeq(b, a)

\* C29: for a SimBroker that started with initial_cash and no positions, after
\* any sequence of execute_order, execute_orders and update_prices calls,
\* cash + sum over positions of qty * avg_cost - realized_pnl equals
\* initial_cash minus the fees of all filled BUY orders; with fee_bps = 0 it
\* equals initial_cash.
C29_AccountingIdentity ==
    /\ SameAmount(Book(broker),
                  RSub(broker.initial_cash, BuyFees(broker.fill_history)))
    /\ broker.fee_bps = 0 => SameAmount(Book(broker), broker.initial_cash)

\* C29 witness: with fees charged, the broker bought, sold part of it and
\* still holds a position, and its prices were updated since
C29_Witness ==
    /\ broker.fee_bps > 0
    /\ last.op = "update_prices"
    /\ DOMAIN broker.positions # {}
    /\ \E i \in DOMAIN broker.fill_history : broker.fill_history[i].side = "SELL"
    /\ RLt(Zero, BuyFees(broker.fill_history))
    /\ ~SameAmount(broker.realized_pnl, Zero)

\* the process is about to re-read the call count with a Strategist proposal
\* in hand, and the count leaves no room for one more call
RecheckTrips(proc, st) ==
    /\ proc.pc = "proposed"
    /\ proc.s1.parsed
    /\ get_daily_call_count(st, Raced.provider, proc.session_date) + 1 > proc.limit

\* C30: when a Strategist proposal exists and the re-read daily call count
\* satisfies count + 1 > daily_limit, RiskGuard is not invoked, the error
\* "Daily call limit reached before RiskGuard" is recorded, and the pipeline
\* completes as a HOLD: it returns its result with trade_plan None and no
\* fills, its RunLog is stored and the calls already made are billed.
C30_RecheckHolds ==
    [][\A p \in Procs :
        (RecheckTrips(processes[p], storage) /\ processes'[p].pc = "done") =>
            /\ ~HasCall(processes'[p].llm_calls, "risk_guard")
            /\ ~processes'[p].raised
            /\ ReturnedResult(processes'[p])
            /\ processes'[p].result.trade_plan = Nil
            /\ processes'[p].result.fills = << >>
            /\ \E i \in DOMAIN processes'[p].result.errors :
                processes'[p].result.errors[i] =
                    [error |-> "Daily call limit reached before RiskGuard"]
            /\ \E r \in storage'.run_logs : r.run_id = p
            /\ get_daily_call_count(storage', Raced.provider, processes[p].session_date) =
                  get_daily_call_count(storage, Raced.provider, processes[p].session_date)
                  + Len(processes'[p].llm_calls)]_vars

====
